---- MODULE Spec2Model ----
(***************************************************************************)
(* Model of the mail-merge tool (src/auto_pcp.py, src/auto_pcp_v2.py).     *)
(*                                                                         *)
(* Strings are sequences of one-character strings, so that the regular     *)
(* expression scan, str.replace, str.strip and the f-strings of the source *)
(* are computed character by character.                                    *)
(***************************************************************************)
EXTENDS Naturals, Sequences, FiniteSets

VARIABLES
    \* one call of _generate_filename(record, pattern, index)
    gf_pc, gf_record, gf_pattern, gf_index, gf_return,
    \* _clean_filename applied to a string, and again to its own result
    cf_pc, cf_filename, cf_cleaned, cf_recleaned,
    \* v2 application: Tk variables, widgets and fields of MailMergeApp
    data_source_path, create_word_var, create_pdf_var, backup_existing_var,
    skip_errors_var, open_output_var, filename_pattern_var,
    run_button, stop_button, is_processing, message_queue,
    \* v2 worker thread: its position and the locals of _mail_merge_worker
    pc, start_time, records, total_records, i,
    success_count, error_count, skipped_count,
    template_doc, base_filename, doc_folder_path, pdf_folder_path, doc_path,
    exc,
    \* environment: files, directories, the clock (whole seconds), the
    \* platform that decides what os.rename does to an existing destination,
    \* and whether another program holds the existing files open
    fs, dirs, now, platform, files_locked,
    \* history: the indices of the records whose processing raised, and the
    \* files as they were when the current record reached its backup step
    raised, fs_pre,
    \* v2 interface: the status line, the progress bar, and the number of
    \* messages of message_queue that _monitor_queue has taken so far (the
    \* queue proper is what follows them)
    status_var, progress_var, delivered,
    \* v2 run: the reader the load step dispatched to, and the number of
    \* worker threads started and not yet finished
    reader, workers,
    \* history: the options as they stood when the run started, the records
    \* during whose processing Stop was clicked, and whether an os.remove of
    \* a temporary file raised
    run_params, stop_clicked, remove_raised,
    \* v1 application: Tk variables, the Run button, and the callbacks that
    \* root.after has scheduled and the Tk loop has not yet executed
    v1_data_source_path, v1_create_word_var, v1_create_pdf_var,
    v1_status_var, v1_progress_var, v1_run_button, v1_is_processing,
    v1_after, v1_dialogs,
    \* v1 worker thread: its position and the locals of _mail_merge_worker
    v1_pc, v1_records, v1_total_records, v1_i, v1_success_count,
    v1_status_msg, v1_base_filename, v1_doc_folder_path,
    v1_pdf_folder_path, v1_doc_path, v1_exc,
    \* v1 environment: files and directories
    v1_fs, v1_dirs,
    \* v1 history: the indices of the records that passed the check of the
    \* required fields, of those a template was loaded for, and of those
    \* counted in success_count
    v1_validated, v1_templates, v1_succeeded,
    \* one construction of the binding context of a v2 record
    ctx_pc, ctx_record, ctx_context

gf_vars == <<gf_pc, gf_record, gf_pattern, gf_index, gf_return>>
cf_vars == <<cf_pc, cf_filename, cf_cleaned, cf_recleaned>>
ui_vars ==
    <<data_source_path, create_word_var, create_pdf_var, backup_existing_var,
      skip_errors_var, open_output_var, filename_pattern_var,
      run_button, stop_button, is_processing, message_queue>>
count_vars == <<success_count, error_count, skipped_count>>
local_vars ==
    <<template_doc, base_filename, doc_folder_path, pdf_folder_path, doc_path>>
worker_vars ==
    <<pc, start_time, records, total_records, i, count_vars, local_vars, exc>>
env_vars == <<fs, dirs, now, platform, files_locked>>
hist_vars == <<raised, fs_pre>>
gui_vars == <<status_var, progress_var, delivered>>
run_vars == <<reader, workers>>
note_vars == <<run_params, stop_clicked, remove_raised>>
v2_vars ==
    <<ui_vars, worker_vars, env_vars, hist_vars, gui_vars, run_vars, note_vars>>
v1_ui_vars ==
    <<v1_data_source_path, v1_create_word_var, v1_create_pdf_var,
      v1_status_var, v1_progress_var, v1_run_button, v1_is_processing,
      v1_after, v1_dialogs>>
v1_local_vars ==
    <<v1_status_msg, v1_base_filename, v1_doc_folder_path,
      v1_pdf_folder_path, v1_doc_path>>
v1_worker_vars ==
    <<v1_pc, v1_records, v1_total_records, v1_i, v1_success_count,
      v1_local_vars, v1_exc>>
v1_env_vars == <<v1_fs, v1_dirs>>
v1_hist_vars == <<v1_validated, v1_templates, v1_succeeded>>
v1_vars == <<v1_ui_vars, v1_worker_vars, v1_env_vars, v1_hist_vars>>
app_vars == <<v2_vars, v1_vars>>
ctx_vars == <<ctx_pc, ctx_record, ctx_context>>
vars == <<gf_vars, cf_vars, ctx_vars, app_vars>>

----------------------------------------------------------------------------
(* Bounds of the model *)

\* a pattern is built from at most MaxParts fragments of PatternParts
MaxParts == 3
\* the record index passed to _generate_filename ranges over 0..MaxIndex
MaxIndex == 1
\* the strings given to _clean_filename have at most MaxLen characters
MaxLen == 3
\* a data source holds at most MaxRecords records
MaxRecords == 2
\* during a run the user leaves at most MaxChanges options different from
\* what they were when the run started
MaxChanges == 1
\* the clock runs from second 0 to second MaxClock
MaxClock == 1

----------------------------------------------------------------------------
(* Python string primitives *)

\* str.strip() with no argument strips whitespace
Whitespace == {" ", "\t", "\n"}

RECURSIVE LStrip(_, _)
LStrip(s, chars) ==
    IF s # <<>> /\ Head(s) \in chars THEN LStrip(Tail(s), chars) ELSE s

RECURSIVE RStrip(_, _)
RStrip(s, chars) ==
    IF s # <<>> /\ s[Len(s)] \in chars
    THEN RStrip(SubSeq(s, 1, Len(s) - 1), chars)
    ELSE s

\* s.strip(chars)
Strip(s, chars) == RStrip(LStrip(s, chars), chars)

\* s starts with old
StartsWith(s, old) ==
    Len(old) <= Len(s) /\ SubSeq(s, 1, Len(old)) = old

\* s.replace(old, new): every non-overlapping occurrence, left to right
RECURSIVE Replace(_, _, _)
Replace(s, old, new) ==
    IF s = <<>> THEN <<>>
    ELSE IF old # <<>> /\ StartsWith(s, old)
         THEN new \o Replace(SubSeq(s, Len(old) + 1, Len(s)), old, new)
         ELSE <<Head(s)>> \o Replace(Tail(s), old, new)

\* position of the first "}" of s at or after position p, 0 when there is none
RECURSIVE FirstClose(_, _)
FirstClose(s, p) ==
    IF p > Len(s) THEN 0
    ELSE IF s[p] = "}" THEN p ELSE FirstClose(s, p + 1)

\* re.findall(r'\{([^}]+)\}', s), scanning from position p
RECURSIVE FindAllFrom(_, _)
FindAllFrom(s, p) ==
    IF p > Len(s) THEN <<>>
    ELSE IF s[p] = "{"
         THEN LET q == FirstClose(s, p + 1)
              IN  IF q > p + 1
                  THEN <<SubSeq(s, p + 1, q - 1)>> \o FindAllFrom(s, q + 1)
                  ELSE FindAllFrom(s, p + 1)
         ELSE FindAllFrom(s, p + 1)

FindAll(s) == FindAllFrom(s, 1)

Digit(d) == <<"0", "1", "2", "3", "4", "5", "6", "7", "8", "9">>[d + 1]

\* str(n) of a natural number, as the f-string formats it
RECURSIVE IntToStr(_)
IntToStr(n) ==
    IF n < 10 THEN <<Digit(n)>> ELSE IntToStr(n \div 10) \o <<Digit(n % 10)>>

----------------------------------------------------------------------------
(* _clean_filename *)

\* the character class [<>:"/\\|?*]
InvalidChars == {"<", ">", ":", "\"", "/", "\\", "|", "?", "*"}

\* re.sub(r'[<>:"/\\|?*]', '_', s)
SubInvalid(s) ==
    [k \in 1..Len(s) |-> IF s[k] \in InvalidChars THEN "_" ELSE s[k]]

DocumentStr == <<"d", "o", "c", "u", "m", "e", "n", "t">>

\* mutant: only the leading spaces and dots are stripped
_clean_filename_lstrip(filename) ==
    LET cleaned == LStrip(SubInvalid(filename), {" ", "."})
    IN  IF cleaned = <<>> THEN DocumentStr ELSE cleaned

_clean_filename(filename) ==
    LET cleaned == Strip(SubInvalid(filename), {" ", "."})
    IN  IF cleaned = <<>> THEN DocumentStr ELSE cleaned

----------------------------------------------------------------------------
(* _generate_filename *)

UnknownStr == <<"U", "n", "k", "n", "o", "w", "n">>

\* f'{{{var}}}'
Braced(var) == <<"{">> \o var \o <<"}">>

\* the loop over the variables found in the pattern: variables is what is
\* left of the list, filename the string rewritten so far (the quantifier
\* binds the rewritten string, which is computed once)
RECURSIVE SubstituteVars(_, _, _)
SubstituteVars(filename, variables, record) ==
    IF variables = <<>> THEN filename
    ELSE LET var == Head(variables)
             next == IF var \in DOMAIN record
                     THEN Replace(filename, Braced(var),
                                  _clean_filename(Strip(record[var], Whitespace)))
                     ELSE Replace(filename, Braced(var), UnknownStr)
         IN  CHOOSE result \in
                 { SubstituteVars(rewritten, Tail(variables), record) :
                       rewritten \in {next} } : TRUE

\* the filename before the fallback test (the quantifier binds the list of
\* variables, which re.findall computes once before the loop)
Substituted(record, pattern) ==
    CHOOSE filename \in
        { SubstituteVars(pattern, variables, record) :
              variables \in {FindAll(pattern)} } : TRUE

\* f"document_{index+1}"
DocumentN(index) == DocumentStr \o <<"_">> \o IntToStr(index + 1)

\* not filename.strip('_') or filename.strip() == ''
NeedsFallback(filename) ==
    Strip(filename, {"_"}) = <<>> \/ Strip(filename, Whitespace) = <<>>

\* mutant: the fallback is taken for the empty string only
_generate_filename_emptyonly(record, pattern, index) ==
    LET filename == Substituted(record, pattern)
    IN  IF filename = <<>> THEN DocumentN(index) ELSE filename

\* (the quantifier binds the substituted filename, which is computed once)
_generate_filename(record, pattern, index) ==
    CHOOSE result \in
        { IF NeedsFallback(filename) THEN DocumentN(index) ELSE filename :
              filename \in {Substituted(record, pattern)} } : TRUE

----------------------------------------------------------------------------
(* Inputs of the pure functions *)

FirstName == <<"F", "i", "r", "s", "t", " ", "N", "a", "m", "e">>
LastName == <<"L", "a", "s", "t", " ", "N", "a", "m", "e">>

\* the default "filename_pattern" setting
DefaultPattern == Braced(FirstName) \o <<"_">> \o Braced(LastName)

\* fragments patterns are built from
PatternParts ==
    { Braced(FirstName), Braced(LastName), <<"_">>, <<" ">>, <<"{", "X">>, <<"x">> }

RECURSIVE PatternsOf(_)
PatternsOf(n) ==
    IF n = 0 THEN {<<>>}
    ELSE LET shorter == PatternsOf(n - 1)
         IN  shorter \cup {p \o part : p \in shorter, part \in PatternParts}

Patterns == PatternsOf(MaxParts)

\* field values: empty, plain, needing sanitizing, and one that reads as a
\* placeholder
FieldValues ==
    { <<>>, <<"A", "n", "n">>, <<"L", "e", "e">>, <<" ", ":", ".">>, Braced(LastName) }

\* records over the two name fields, each field present or absent
Records ==
    UNION { [fields -> FieldValues] : fields \in SUBSET {FirstName, LastName} }

CleanChars == {"a", " ", ".", ":", "_", "*"}

RECURSIVE StringsOf(_)
StringsOf(n) ==
    IF n = 0 THEN {<<>>}
    ELSE LET shorter == StringsOf(n - 1)
         IN  shorter \cup {s \o <<c>> : s \in shorter, c \in CleanChars}

----------------------------------------------------------------------------
(* v2 application: files, messages and the state after construction *)

Str_docx == <<".", "d", "o", "c", "x">>
Str_pdf == <<".", "p", "d", "f">>
Str_csv == <<".", "c", "s", "v">>
Str_xlsx == <<".", "x", "l", "s", "x">>
Str_xls == <<".", "x", "l", "s">>
Str_backup == <<"_", "b", "a", "c", "k", "u", "p", "_">>
Str_temp == <<"_", "t", "e", "m", "p", "_">>

\* s.endswith(suffix)
EndsWith(s, suffix) ==
    Len(suffix) <= Len(s)
        /\ SubSeq(s, Len(s) - Len(suffix) + 1, Len(s)) = suffix

\* os.path.join(folder, name)
PathJoin(folder, name) == folder \o <<"/">> \o name

\* datetime.now().strftime("%Y%m%d_%H%M%S") within the first minute of the
\* model's clock
Strftime(t) ==
    <<"2", "0", "2", "6", "0", "1", "0", "1", "_", "0", "0", "0", "0">>
        \o (IF t < 10 THEN <<"0">> ELSE <<>>) \o IntToStr(t)

\* self.output_dir.get()
output_dir == <<"o", "u", "t">>

DocFolderPath ==
    <<"D", "o", "c", "F", "o", "l", "d", "e", "r", "P", "a", "t", "h">>
PdfFolderPath ==
    <<"P", "d", "f", "F", "o", "l", "d", "e", "r", "P", "a", "t", "h">>

\* record.get(key, default)
RecordGet(record, key, default) ==
    IF key \in DOMAIN record THEN record[key] ELSE default

\* a record of the data source: the two name columns and, when the source
\* has such columns, the per-record folders (an empty cell is the empty
\* string after fillna(''))
Row(first, last, folders) ==
    [f \in {FirstName, LastName} \cup DOMAIN folders |->
        IF f = FirstName THEN first
        ELSE IF f = LastName THEN last
        ELSE folders[f]]

NoFolders == [f \in {} |-> <<>>]

\* the records a data source may hold
RunRecords ==
    { Row(<<"A", "n", "n">>, <<"L", "e", "e">>, NoFolders),
      Row(<<"L", "e", "e">>, <<"A", "n", "n">>, NoFolders),
      Row(<<"A", "n", "n">>, <<"L", "e", "e">>,
          [f \in {DocFolderPath} |-> <<>>]),
      Row(<<"L", "e", "e">>, <<"A", "n", "n">>,
          [f \in {DocFolderPath, PdfFolderPath} |->
              IF f = DocFolderPath THEN <<"w">> ELSE <<"p">>]) }

RECURSIVE SourcesOf(_)
SourcesOf(n) ==
    IF n = 0 THEN {<<>>}
    ELSE LET shorter == SourcesOf(n - 1)
         IN  shorter \cup {Append(s, r) : s \in shorter, r \in RunRecords}

\* what read_csv / read_excel followed by to_dict('records') may return
Sources == SourcesOf(MaxRecords)

DataPaths ==
    { <<"d">> \o Str_csv, <<"d">> \o Str_xlsx, <<"d">> \o Str_xls,
      <<"d">> \o <<".", "t", "x", "t">> }

\* content of a file: the record it was rendered from (numbered from 1; 0
\* for a file that was there before the run) and its format
Content(rec, fmt) == [rec |-> rec, fmt |-> fmt]

NoPath == <<>>
NoDoc == [rec |-> 0]
EmptyFs == [p \in {} |-> Content(0, "docx")]

\* the file system with path p holding content c
WriteFile(files, p, c) ==
    [q \in DOMAIN files \cup {p} |-> IF q = p THEN c ELSE files[q]]

RemoveFile(files, p) == [q \in DOMAIN files \ {p} |-> files[q]]

\* files left by an earlier session at the paths of the Ann Lee record
OldFiles ==
    LET stem == <<"A", "n", "n", "_", "L", "e", "e">>
    IN  WriteFile(WriteFile(EmptyFs,
                            PathJoin(output_dir, stem \o Str_docx),
                            Content(0, "docx")),
                  PathJoin(output_dir, stem \o Str_pdf),
                  Content(0, "pdf"))

\* messages put on message_queue
StatusMsg(text) == [type |-> "status", text |-> text]
ProgressMsg(value) == [type |-> "progress", value |-> value]
ErrorMsg(text) == [type |-> "error", text |-> text]
SuccessMsg(text) == [type |-> "success", text |-> text]

\* (i / total_records) * 100, kept to its integer part
Progress(index, total) == (index * 100) \div total

\* the options a run depends on, as the Tk variables hold them
Params(word, pdf, backup, skip, pattern) ==
    [create_word |-> word, create_pdf |-> pdf, backup_existing |-> backup,
     skip_errors |-> skip, filename_pattern |-> pattern]

NoParams == Params(TRUE, TRUE, TRUE, TRUE, <<>>)

v2_Idle ==
    /\ data_source_path = <<>>
    /\ create_word_var = TRUE
    /\ create_pdf_var = TRUE
    /\ backup_existing_var = TRUE
    /\ skip_errors_var = TRUE
    /\ open_output_var = FALSE
    /\ filename_pattern_var = <<>>
    /\ run_button = "normal"
    /\ stop_button = "disabled"
    /\ is_processing = FALSE
    /\ message_queue = <<>>
    /\ pc = "unused"
    /\ start_time = 0
    /\ records = <<>>
    /\ total_records = 0
    /\ i = 0
    /\ success_count = 0
    /\ error_count = 0
    /\ skipped_count = 0
    /\ template_doc = NoDoc
    /\ base_filename = <<>>
    /\ doc_folder_path = <<>>
    /\ pdf_folder_path = <<>>
    /\ doc_path = NoPath
    /\ exc = "none"
    /\ fs = EmptyFs
    /\ dirs = {}
    /\ now = 0
    /\ platform = "posix"
    /\ files_locked = FALSE
    /\ raised = {}
    /\ fs_pre = EmptyFs
    /\ status_var = [msg |-> "Ready"]
    /\ progress_var = 0
    /\ delivered = 0
    /\ reader = "none"
    /\ workers = 0
    /\ run_params = NoParams
    /\ stop_clicked = {}
    /\ remove_raised = FALSE

\* a number as the Tk DoubleVar of the progress bar holds it
Ratio(num, den) == [num |-> num, den |-> den]

\* the text of the v1 status line
StatusText(msg, n, of) == [msg |-> msg, n |-> n, of |-> of]

v1_Idle ==
    /\ v1_data_source_path = <<>>
    /\ v1_create_word_var = TRUE
    /\ v1_create_pdf_var = TRUE
    /\ v1_status_var = StatusText("Ready", 0, 0)
    /\ v1_progress_var = Ratio(0, 1)
    /\ v1_run_button = "normal"
    /\ v1_is_processing = FALSE
    /\ v1_after = <<>>
    /\ v1_dialogs = <<>>
    /\ v1_pc = "unused"
    /\ v1_records = <<>>
    /\ v1_total_records = 0
    /\ v1_i = 0
    /\ v1_success_count = 0
    /\ v1_status_msg = StatusText("unbound", 0, 0)
    /\ v1_base_filename = <<>>
    /\ v1_doc_folder_path = <<>>
    /\ v1_pdf_folder_path = <<>>
    /\ v1_doc_path = NoPath
    /\ v1_exc = "none"
    /\ v1_fs = EmptyFs
    /\ v1_dirs = {}
    /\ v1_validated = {}
    /\ v1_templates = {}
    /\ v1_succeeded = {}

app_Idle == v2_Idle /\ v1_Idle

----------------------------------------------------------------------------
(* Calls of the pure functions *)

NoString == <<"\n">>

gf_Idle ==
    /\ gf_pc = "unused"
    /\ gf_record = <<>>
    /\ gf_pattern = <<>>
    /\ gf_index = 0
    /\ gf_return = NoString

cf_Idle ==
    /\ cf_pc = "unused"
    /\ cf_filename = <<>>
    /\ cf_cleaned = NoString
    /\ cf_recleaned = NoString

\* a dict without items
EmptyDict == [k \in {} |-> <<>>]

ctx_Idle ==
    /\ ctx_pc = "unused"
    /\ ctx_record = <<>>
    /\ ctx_context = EmptyDict

InitFn ==
    /\ gf_pc = "call"
    /\ ctx_Idle
    /\ gf_record \in Records
    /\ gf_pattern \in Patterns
    /\ gf_index \in 0..MaxIndex
    /\ gf_return = NoString
    /\ cf_Idle
    /\ app_Idle

GenerateFilename ==
    /\ gf_pc = "call"
    /\ gf_return' = _generate_filename(gf_record, gf_pattern, gf_index)
    /\ gf_pc' = "returned"
    /\ UNCHANGED <<gf_record, gf_pattern, gf_index, cf_vars, ctx_vars, app_vars>>

InitClean ==
    /\ cf_pc = "call"
    /\ ctx_Idle
    /\ cf_filename \in StringsOf(MaxLen)
    /\ cf_cleaned = NoString
    /\ cf_recleaned = NoString
    /\ gf_Idle
    /\ app_Idle

CleanFilename ==
    /\ cf_pc = "call"
    /\ cf_cleaned' = _clean_filename(cf_filename)
    /\ cf_pc' = "cleaned"
    /\ UNCHANGED <<cf_filename, cf_recleaned, gf_vars, ctx_vars, app_vars>>

CleanFilenameAgain ==
    /\ cf_pc = "cleaned"
    /\ cf_recleaned' = _clean_filename(cf_cleaned)
    /\ cf_pc' = "recleaned"
    /\ UNCHANGED <<cf_filename, cf_cleaned, gf_vars, ctx_vars, app_vars>>

NextFn == GenerateFilename
SpecFn == InitFn /\ [][NextFn]_vars

NextClean == CleanFilename \/ CleanFilenameAgain
SpecClean == InitClean /\ [][NextClean]_vars

----------------------------------------------------------------------------
(* v2 application: construction *)

\* MailMergeApp.__init__: the state after construction.  The output format
\* flags and the paths come from the saved settings of the last session; the
\* other options have fixed initial values.
Init ==
    /\ gf_Idle
    /\ ctx_Idle
    /\ cf_Idle
    /\ data_source_path \in DataPaths
    /\ create_word_var \in BOOLEAN
    /\ create_pdf_var \in BOOLEAN
    /\ backup_existing_var = TRUE
    /\ skip_errors_var = TRUE
    /\ open_output_var = FALSE
    /\ filename_pattern_var = DefaultPattern
    /\ run_button = "normal"
    /\ stop_button = "disabled"
    /\ is_processing = FALSE
    /\ message_queue = <<>>
    /\ pc = "ready"
    /\ start_time = 0
    /\ records = <<>>
    /\ total_records = 0
    /\ i = 0
    /\ success_count = 0
    /\ error_count = 0
    /\ skipped_count = 0
    /\ template_doc = NoDoc
    /\ base_filename = <<>>
    /\ doc_folder_path = <<>>
    /\ pdf_folder_path = <<>>
    /\ doc_path = NoPath
    /\ exc = "none"
    /\ fs \in {EmptyFs, OldFiles}
    /\ dirs = IF fs = EmptyFs THEN {} ELSE {output_dir}
    /\ now = 0
    /\ platform \in {"posix", "windows"}
    /\ files_locked \in BOOLEAN
    /\ raised = {}
    /\ fs_pre = EmptyFs
    /\ status_var = [msg |-> "Ready"]
    /\ progress_var = 0
    /\ delivered = 0
    /\ reader = "none"
    /\ workers = 0
    /\ run_params = NoParams
    /\ stop_clicked = {}
    /\ remove_raised = FALSE
    /\ v1_Idle

----------------------------------------------------------------------------
(* v2 application: the user's actions *)

\* the user sets the options before starting the run and leaves them alone
\* afterwards
SettingsUnlocked == pc = "ready"

\* the check buttons of the Processing Options and Output Format frames
ToggleSkipErrors ==
    /\ SettingsUnlocked
    /\ skip_errors_var' = ~skip_errors_var
    /\ UNCHANGED <<gf_vars, cf_vars, ctx_vars, v1_vars, gui_vars, run_vars, note_vars, worker_vars, env_vars, hist_vars,
                   data_source_path, create_word_var, create_pdf_var,
                   backup_existing_var, open_output_var, filename_pattern_var,
                   run_button, stop_button, is_processing, message_queue>>

ToggleBackupExisting ==
    /\ SettingsUnlocked
    /\ backup_existing_var' = ~backup_existing_var
    /\ UNCHANGED <<gf_vars, cf_vars, ctx_vars, v1_vars, gui_vars, run_vars, note_vars, worker_vars, env_vars, hist_vars,
                   data_source_path, create_word_var, create_pdf_var,
                   skip_errors_var, open_output_var, filename_pattern_var,
                   run_button, stop_button, is_processing, message_queue>>

ToggleCreateWord ==
    /\ SettingsUnlocked
    /\ create_word_var' = ~create_word_var
    /\ UNCHANGED <<gf_vars, cf_vars, ctx_vars, v1_vars, gui_vars, run_vars, note_vars, worker_vars, env_vars, hist_vars,
                   data_source_path, create_pdf_var, backup_existing_var,
                   skip_errors_var, open_output_var, filename_pattern_var,
                   run_button, stop_button, is_processing, message_queue>>

ToggleCreatePdf ==
    /\ SettingsUnlocked
    /\ create_pdf_var' = ~create_pdf_var
    /\ UNCHANGED <<gf_vars, cf_vars, ctx_vars, v1_vars, gui_vars, run_vars, note_vars, worker_vars, env_vars, hist_vars,
                   data_source_path, create_word_var, backup_existing_var,
                   skip_errors_var, open_output_var, filename_pattern_var,
                   run_button, stop_button, is_processing, message_queue>>

\* validate_inputs, for the inputs the model varies
validate_inputs ==
    /\ create_word_var \/ create_pdf_var
    /\ Strip(filename_pattern_var, Whitespace) # <<>>

\* the options read off the Tk variables
CurrentParams ==
    Params(create_word_var, create_pdf_var, backup_existing_var,
           skip_errors_var, filename_pattern_var)

\* mutant: the Run button starts a worker whether or not one is running
run_mail_merge_unguarded ==
    /\ pc # "exited"
    /\ workers < 2
    /\ IF validate_inputs
       THEN /\ run_button' = "disabled"
            /\ stop_button' = "normal"
            /\ is_processing' = TRUE
            /\ workers' = workers + 1
            /\ run_params' = CurrentParams
            /\ pc' = "start"
       ELSE UNCHANGED <<run_button, stop_button, is_processing, workers,
                        run_params, pc>>
    /\ UNCHANGED <<gf_vars, cf_vars, ctx_vars, v1_vars, gui_vars, reader, stop_clicked,
                   remove_raised, env_vars, hist_vars,
                   data_source_path, create_word_var, create_pdf_var,
                   backup_existing_var, skip_errors_var, open_output_var,
                   filename_pattern_var, message_queue,
                   start_time, records, total_records, i, count_vars,
                   local_vars, exc>>

\* the Run button; one run is followed per session
run_mail_merge ==
    /\ pc # "exited"
    /\ IF validate_inputs /\ ~is_processing
       THEN /\ run_button' = "disabled"
            /\ stop_button' = "normal"
            /\ is_processing' = TRUE
            /\ workers' = workers + 1
            /\ run_params' = CurrentParams
            /\ pc' = "start"
       ELSE UNCHANGED <<run_button, stop_button, is_processing, workers,
                        run_params, pc>>
    /\ UNCHANGED <<gf_vars, cf_vars, ctx_vars, v1_vars, gui_vars, reader, stop_clicked,
                   remove_raised, env_vars, hist_vars,
                   data_source_path, create_word_var, create_pdf_var,
                   backup_existing_var, skip_errors_var, open_output_var,
                   filename_pattern_var, message_queue,
                   start_time, records, total_records, i, count_vars,
                   local_vars, exc>>

\* the positions of the worker inside the body of the per-record try, and
\* in its except clause
RecordSteps ==
    {"render", "filename", "dirs", "backup", "word", "pdf", "count",
     "rec_except"}

\* the Stop button: a message box and nothing else.  stop_clicked notes the
\* record that was being processed when the button was clicked.
_stop_processing ==
    /\ stop_button = "normal"
    /\ pc \in RecordSteps
    /\ stop_clicked' = stop_clicked \cup {i}
    /\ UNCHANGED <<gf_vars, cf_vars, ctx_vars, v1_vars, gui_vars, run_vars, run_params,
                   remove_raised, ui_vars, worker_vars, env_vars, hist_vars>>

\* the user changes one of the check buttons while the worker is running:
\* nothing disables them during a run
ToggleDuringRun ==
    /\ pc \notin {"ready", "exited"}
    /\ Cardinality({k \in DOMAIN run_params :
                       CurrentParams[k] # run_params[k]}) < MaxChanges
    /\ \/ /\ skip_errors_var' = ~skip_errors_var
          /\ UNCHANGED <<create_word_var, create_pdf_var, backup_existing_var>>
       \/ /\ backup_existing_var' = ~backup_existing_var
          /\ UNCHANGED <<create_word_var, create_pdf_var, skip_errors_var>>
       \/ /\ create_word_var' = ~create_word_var
          /\ UNCHANGED <<create_pdf_var, backup_existing_var, skip_errors_var>>
       \/ /\ create_pdf_var' = ~create_pdf_var
          /\ UNCHANGED <<create_word_var, backup_existing_var, skip_errors_var>>
    /\ UNCHANGED <<gf_vars, cf_vars, ctx_vars, v1_vars, gui_vars, run_vars, note_vars,
                   worker_vars, env_vars, hist_vars,
                   data_source_path, open_output_var, filename_pattern_var,
                   run_button, stop_button, is_processing, message_queue>>

\* the index of the last message of the given type among those after the
\* first `from`, or 0
LastIndex(from, type) ==
    LET found == {k \in (from + 1)..Len(message_queue) :
                     message_queue[k].type = type}
    IN  IF found = {} THEN 0
        ELSE CHOOSE k \in found : \A j \in found : j <= k

\* _monitor_queue, every 100 ms on the interface thread: it takes every
\* message waiting in the queue and applies it to the status line, the
\* progress bar or a message box
_monitor_queue ==
    /\ delivered < Len(message_queue)
    /\ LET s == LastIndex(delivered, "status")
           g == LastIndex(delivered, "progress")
       IN  /\ status_var' = IF s = 0 THEN status_var ELSE message_queue[s].text
           /\ progress_var' =
                  IF g = 0 THEN progress_var ELSE message_queue[g].value
    /\ delivered' = Len(message_queue)
    /\ UNCHANGED <<gf_vars, cf_vars, ctx_vars, v1_vars, run_vars, note_vars, ui_vars,
                   worker_vars, env_vars, hist_vars>>

----------------------------------------------------------------------------
(* v2 application: _mail_merge_worker, one action per step of the thread *)

Put(msg) == message_queue' = Append(message_queue, msg)
Put2(m1, m2) == message_queue' = message_queue \o <<m1, m2>>

\* an exception of the given kind leaves the body of the per-record try
RaiseInRecord(kind) ==
    /\ exc' = kind
    /\ raised' = raised \cup {i}
    /\ pc' = "rec_except"

\* start_time = time.time() and the two initial messages
WorkerStart ==
    /\ pc = "start"
    /\ start_time' = now
    /\ Put2(StatusMsg([msg |-> "Initializing"]), ProgressMsg(0))
    /\ pc' = "load"
    /\ UNCHANGED <<gf_vars, cf_vars, ctx_vars, v1_vars, gui_vars, run_vars, note_vars, env_vars, hist_vars,
                   data_source_path, create_word_var, create_pdf_var,
                   backup_existing_var, skip_errors_var, open_output_var,
                   filename_pattern_var, run_button, stop_button,
                   is_processing, records, total_records, i, count_vars,
                   local_vars, exc>>

\* mutant: every extension is taken for a supported format
SupportedFormat_lenient(path) == TRUE

\* data_path.endswith('.csv') or data_path.endswith(('.xlsx', '.xls'))
SupportedFormat(path) ==
    EndsWith(path, Str_csv) \/ EndsWith(path, Str_xlsx) \/ EndsWith(path, Str_xls)

\* the reader the if/elif chain on the extension dispatches to
Reader(path) ==
    IF EndsWith(path, Str_csv) THEN "read_csv"
    ELSE IF EndsWith(path, Str_xlsx) \/ EndsWith(path, Str_xls) THEN "read_excel"
    ELSE "none"

\* mutant: a data source without records is not refused
WorkerLoad_unchecked ==
    /\ pc = "load"
    /\ reader' = Reader(data_source_path)
    /\ IF ~SupportedFormat(data_source_path)
       THEN /\ exc' = "Unsupported data source format"
            /\ pc' = "except"
            /\ UNCHANGED <<records, total_records, i, count_vars, dirs>>
       ELSE \/ /\ exc' = "read"
               /\ pc' = "except"
               /\ UNCHANGED <<records, total_records, i, count_vars, dirs>>
            \/ \E data \in Sources :
                  /\ records' = data
                  /\ total_records' = Len(data)
                  /\ dirs' = dirs \cup {output_dir}
                  /\ success_count' = 0
                  /\ error_count' = 0
                  /\ skipped_count' = 0
                  /\ i' = 0
                  /\ pc' = "loop"
                  /\ UNCHANGED exc
    /\ UNCHANGED <<gf_vars, cf_vars, ctx_vars, v1_vars, gui_vars, workers,
                   note_vars, ui_vars, hist_vars, start_time, local_vars,
                   fs, now, platform, files_locked>>

\* loading the data source, up to the creation of the output directory
WorkerLoad ==
    /\ pc = "load"
    /\ reader' = Reader(data_source_path)
    /\ IF ~SupportedFormat(data_source_path)
       THEN /\ exc' = "Unsupported data source format"
            /\ pc' = "except"
            /\ UNCHANGED <<records, total_records, i, count_vars, dirs>>
       ELSE \/ \* the reader raises
               /\ exc' = "read"
               /\ pc' = "except"
               /\ UNCHANGED <<records, total_records, i, count_vars, dirs>>
            \/ \E data \in Sources :
                  /\ records' = data
                  /\ total_records' = Len(data)
                  /\ IF Len(data) = 0
                     THEN /\ exc' = "No records found in data source"
                          /\ pc' = "except"
                          /\ UNCHANGED <<i, count_vars, dirs>>
                     ELSE /\ dirs' = dirs \cup {output_dir}
                          /\ success_count' = 0
                          /\ error_count' = 0
                          /\ skipped_count' = 0
                          /\ i' = 0
                          /\ pc' = "loop"
                          /\ UNCHANGED exc
    /\ UNCHANGED <<gf_vars, cf_vars, ctx_vars, v1_vars, gui_vars, workers, note_vars, ui_vars,
                   hist_vars, start_time, local_vars, fs, now, platform,
                   files_locked>>

\* mutant: the progress of a record counts down from 100
RecordBegin_countdown ==
    /\ pc = "loop"
    /\ i < total_records
    /\ Put2(StatusMsg([msg |-> "Processing record", index |-> i + 1,
                       total |-> total_records]),
            ProgressMsg(100 - Progress(i, total_records)))
    /\ pc' = "render"
    /\ UNCHANGED <<gf_vars, cf_vars, ctx_vars, v1_vars, gui_vars, run_vars, note_vars, env_vars,
                   hist_vars,
                   data_source_path, create_word_var, create_pdf_var,
                   backup_existing_var, skip_errors_var, open_output_var,
                   filename_pattern_var, run_button, stop_button,
                   is_processing, start_time, records, total_records, i,
                   count_vars, local_vars, exc>>

\* the head of the record loop and the two messages of a record
RecordBegin ==
    /\ pc = "loop"
    /\ i < total_records
    /\ Put2(StatusMsg([msg |-> "Processing record", index |-> i + 1,
                       total |-> total_records]),
            ProgressMsg(Progress(i, total_records)))
    /\ pc' = "render"
    /\ UNCHANGED <<gf_vars, cf_vars, ctx_vars, v1_vars, gui_vars, run_vars, note_vars, env_vars, hist_vars,
                   data_source_path, create_word_var, create_pdf_var,
                   backup_existing_var, skip_errors_var, open_output_var,
                   filename_pattern_var, run_button, stop_button,
                   is_processing, start_time, records, total_records, i,
                   count_vars, local_vars, exc>>

\* mutant: the template instance of the first record is used again
RecordRender_reuse ==
    /\ pc = "render"
    /\ \/ /\ RaiseInRecord("render")
          /\ UNCHANGED template_doc
       \/ /\ template_doc' = IF template_doc = NoDoc THEN [rec |-> i + 1]
                             ELSE template_doc
          /\ pc' = "filename"
          /\ UNCHANGED <<exc, raised>>
    /\ UNCHANGED <<gf_vars, cf_vars, ctx_vars, v1_vars, gui_vars, run_vars, note_vars,
                   ui_vars, env_vars, fs_pre, start_time, records,
                   total_records, i, count_vars, base_filename,
                   doc_folder_path, pdf_folder_path, doc_path>>

\* a fresh DocxTemplate, the context and template_doc.render(context)
RecordRender ==
    /\ pc = "render"
    /\ \/ /\ RaiseInRecord("render")
          /\ UNCHANGED template_doc
       \/ /\ template_doc' = [rec |-> i + 1]
          /\ pc' = "filename"
          /\ UNCHANGED <<exc, raised>>
    /\ UNCHANGED <<gf_vars, cf_vars, ctx_vars, v1_vars, gui_vars, run_vars, note_vars, ui_vars, env_vars, fs_pre,
                   start_time, records, total_records, i, count_vars,
                   base_filename, doc_folder_path, pdf_folder_path, doc_path>>

\* base_filename = self._generate_filename(record, pattern, i)
RecordFilename ==
    /\ pc = "filename"
    /\ base_filename' =
           _generate_filename(records[i + 1], filename_pattern_var, i)
    /\ pc' = "dirs"
    /\ UNCHANGED <<gf_vars, cf_vars, ctx_vars, v1_vars, gui_vars, run_vars, note_vars, ui_vars, env_vars, hist_vars,
                   start_time, records, total_records, i, count_vars,
                   template_doc, doc_folder_path, pdf_folder_path, doc_path,
                   exc>>

\* os.makedirs(path, exist_ok=True) raises for an empty path, and may be
\* refused by the system for a directory that does not exist yet
MakedirsMayRaise(path) == path = <<>> \/ path \notin dirs
MakedirsMaySucceed(path) == path # <<>>

\* the two folder paths and os.makedirs(..., exist_ok=True)
RecordDirs ==
    /\ pc = "dirs"
    /\ LET doc_folder == RecordGet(records[i + 1], DocFolderPath, output_dir)
           pdf_folder == RecordGet(records[i + 1], PdfFolderPath, output_dir)
       IN  /\ doc_folder_path' = doc_folder
           /\ pdf_folder_path' = pdf_folder
           /\ \/ /\ MakedirsMayRaise(doc_folder)
                 /\ RaiseInRecord("makedirs")
                 /\ UNCHANGED dirs
              \/ /\ MakedirsMaySucceed(doc_folder)
                 /\ create_pdf_var
                 /\ MakedirsMayRaise(pdf_folder)
                 /\ pdf_folder # doc_folder
                 /\ RaiseInRecord("makedirs")
                 /\ dirs' = dirs \cup {doc_folder}
              \/ /\ MakedirsMaySucceed(doc_folder)
                 /\ create_pdf_var => MakedirsMaySucceed(pdf_folder)
                 /\ dirs' = dirs \cup {doc_folder}
                               \cup (IF create_pdf_var THEN {pdf_folder} ELSE {})
                 /\ pc' = "backup"
                 /\ UNCHANGED <<exc, raised>>
    /\ UNCHANGED <<gf_vars, cf_vars, ctx_vars, v1_vars, gui_vars, run_vars, note_vars, ui_vars, fs, now, platform, files_locked,
                   fs_pre,
                   start_time, records, total_records, i, count_vars,
                   template_doc, base_filename, doc_path>>

\* os.rename(src, dst) inside its try: nothing happens when the call raises,
\* which it does when the file is held open by another program and, on
\* Windows, when dst exists; elsewhere an existing dst is replaced
RenameOrWarn(files, src, dst) ==
    IF files_locked \/ (dst \in DOMAIN files /\ platform = "windows")
    THEN files
    ELSE WriteFile(RemoveFile(files, src), dst, files[src])

\* f"{base_filename}_backup_{timestamp}<ext>"
BackupName(base, timestamp, ext) == base \o Str_backup \o timestamp \o ext

\* _backup_existing_files, with the clock reading t
_backup_existing_files(files, doc_folder, pdf_folder, base, t) ==
    LET timestamp == Strftime(t)
        docp == PathJoin(doc_folder, base \o Str_docx)
        after_doc ==
            IF docp \in DOMAIN files
            THEN RenameOrWarn(files, docp,
                     PathJoin(doc_folder, BackupName(base, timestamp, Str_docx)))
            ELSE files
        pdfp == PathJoin(pdf_folder, base \o Str_pdf)
    IN  IF pdfp \in DOMAIN after_doc
        THEN RenameOrWarn(after_doc, pdfp,
                 PathJoin(pdf_folder, BackupName(base, timestamp, Str_pdf)))
        ELSE after_doc

\* mutant: a rename that raises fails the record
RecordBackup_fatal ==
    /\ pc = "backup"
    /\ doc_path' = NoPath
    /\ fs_pre' = fs
    /\ IF backup_existing_var
       THEN \E t \in now..MaxClock :
               /\ now' = t
               /\ fs' = _backup_existing_files(fs, doc_folder_path,
                            pdf_folder_path, base_filename, t)
       ELSE UNCHANGED <<fs, now>>
    /\ IF backup_existing_var /\ files_locked
       THEN RaiseInRecord("rename")
       ELSE pc' = "word" /\ UNCHANGED <<exc, raised>>
    /\ UNCHANGED <<gf_vars, cf_vars, ctx_vars, v1_vars, gui_vars, run_vars, note_vars,
                   ui_vars, dirs, platform, files_locked, start_time,
                   records, total_records, i, count_vars, template_doc,
                   base_filename, doc_folder_path, pdf_folder_path>>

\* doc_path = None and the backup of the existing files
RecordBackup ==
    /\ pc = "backup"
    /\ doc_path' = NoPath
    /\ fs_pre' = fs
    /\ IF backup_existing_var
       THEN \E t \in now..MaxClock :
               /\ now' = t
               /\ fs' = _backup_existing_files(fs, doc_folder_path,
                            pdf_folder_path, base_filename, t)
       ELSE UNCHANGED <<fs, now>>
    /\ pc' = "word"
    /\ UNCHANGED <<gf_vars, cf_vars, ctx_vars, v1_vars, gui_vars, run_vars, note_vars, ui_vars, dirs, platform, files_locked,
                   raised,
                   start_time, records, total_records, i, count_vars,
                   template_doc, base_filename, doc_folder_path,
                   pdf_folder_path, exc>>

\* mutant: the Word document is never saved
RecordWord_unsaved ==
    /\ pc = "word"
    /\ IF create_word_var
       THEN /\ doc_path' = PathJoin(doc_folder_path, base_filename \o Str_docx)
            /\ pc' = "pdf"
            /\ UNCHANGED <<fs, exc, raised>>
       ELSE /\ pc' = "pdf"
            /\ UNCHANGED <<doc_path, fs, exc, raised>>
    /\ UNCHANGED <<gf_vars, cf_vars, ctx_vars, v1_vars, gui_vars, run_vars, note_vars,
                   ui_vars, dirs, now, platform, files_locked, fs_pre,
                   start_time, records, total_records, i, count_vars,
                   template_doc, base_filename, doc_folder_path,
                   pdf_folder_path>>

\* the Word document
RecordWord ==
    /\ pc = "word"
    /\ IF create_word_var
       THEN LET path == PathJoin(doc_folder_path, base_filename \o Str_docx)
            IN  /\ doc_path' = path
                /\ \/ /\ RaiseInRecord("save")
                      /\ UNCHANGED fs
                   \/ /\ fs' = WriteFile(fs, path, Content(template_doc.rec, "docx"))
                      /\ pc' = "pdf"
                      /\ UNCHANGED <<exc, raised>>
       ELSE /\ pc' = "pdf"
            /\ UNCHANGED <<doc_path, fs, exc, raised>>
    /\ UNCHANGED <<gf_vars, cf_vars, ctx_vars, v1_vars, gui_vars, run_vars, note_vars, ui_vars, dirs, now, platform,
                   files_locked, fs_pre,
                   start_time, records, total_records, i, count_vars,
                   template_doc, base_filename, doc_folder_path,
                   pdf_folder_path>>

\* f"_temp_{i}.docx" in the output directory
TempPath(index) == PathJoin(output_dir, Str_temp \o IntToStr(index) \o Str_docx)

\* the PDF: the temporary Word file when none was saved, the conversion and
\* the removal of the temporary file
RecordPdf ==
    /\ pc = "pdf"
    /\ IF create_pdf_var
       THEN LET temp_doc_created == doc_path = NoPath
                source == IF temp_doc_created THEN TempPath(i) ELSE doc_path
                saved == IF temp_doc_created
                         THEN WriteFile(fs, source, Content(template_doc.rec, "docx"))
                         ELSE fs
                pdf_path == PathJoin(pdf_folder_path, base_filename \o Str_pdf)
                converted == WriteFile(saved, pdf_path,
                                       Content(saved[source].rec, "pdf"))
            IN  /\ doc_path' = source
                /\ \/ /\ temp_doc_created
                      /\ RaiseInRecord("save")
                      /\ UNCHANGED <<fs, remove_raised>>
                   \/ /\ source \in DOMAIN saved
                      /\ RaiseInRecord("convert")
                      /\ fs' = saved
                      /\ UNCHANGED remove_raised
                   \/ /\ source \in DOMAIN saved
                      /\ \/ /\ fs' = IF temp_doc_created
                                     THEN RemoveFile(converted, source)
                                     ELSE converted
                            /\ UNCHANGED remove_raised
                         \/ \* os.remove raises, which is only logged
                            /\ temp_doc_created
                            /\ fs' = converted
                            /\ remove_raised' = TRUE
                      /\ pc' = "count"
                      /\ UNCHANGED <<exc, raised>>
       ELSE /\ pc' = "count"
            /\ UNCHANGED <<doc_path, fs, exc, raised, remove_raised>>
    /\ UNCHANGED <<gf_vars, cf_vars, ctx_vars, v1_vars, gui_vars, run_vars, run_params,
                   stop_clicked, ui_vars, dirs, now, platform,
                   files_locked, fs_pre,
                   start_time, records, total_records, i, count_vars,
                   template_doc, base_filename, doc_folder_path,
                   pdf_folder_path>>

\* success_count += 1, and on to the next record
RecordCount ==
    /\ pc = "count"
    /\ success_count' = success_count + 1
    /\ i' = i + 1
    /\ pc' = "loop"
    /\ UNCHANGED <<gf_vars, cf_vars, ctx_vars, v1_vars, gui_vars, run_vars, note_vars, ui_vars, env_vars, hist_vars,
                   start_time, records, total_records, error_count,
                   skipped_count, local_vars, exc>>

\* mutant: a failed record is not counted as an error
RecordExcept_uncounted ==
    /\ pc = "rec_except"
    /\ IF ~skip_errors_var
       THEN /\ pc' = "except"
            /\ UNCHANGED <<skipped_count, i, exc>>
       ELSE /\ skipped_count' = skipped_count + 1
            /\ i' = i + 1
            /\ exc' = "none"
            /\ pc' = "loop"
    /\ UNCHANGED <<gf_vars, cf_vars, ctx_vars, v1_vars, gui_vars, run_vars, note_vars, ui_vars, env_vars, hist_vars,
                   start_time, records, total_records, success_count,
                   error_count, local_vars>>

\* mutant: a failed record is always skipped, whatever skip_errors_var says
RecordExcept_alwaysskip ==
    /\ pc = "rec_except"
    /\ error_count' = error_count + 1
    /\ skipped_count' = skipped_count + 1
    /\ i' = i + 1
    /\ exc' = "none"
    /\ pc' = "loop"
    /\ UNCHANGED <<gf_vars, cf_vars, ctx_vars, v1_vars, gui_vars, run_vars, note_vars, ui_vars, env_vars, hist_vars,
                   start_time, records, total_records, success_count,
                   local_vars>>

\* the except clause of the per-record try
RecordExcept ==
    /\ pc = "rec_except"
    /\ error_count' = error_count + 1
    /\ IF ~skip_errors_var
       THEN /\ pc' = "except"
            /\ UNCHANGED <<skipped_count, i, exc>>
       ELSE /\ skipped_count' = skipped_count + 1
            /\ i' = i + 1
            /\ exc' = "none"
            /\ pc' = "loop"
    /\ UNCHANGED <<gf_vars, cf_vars, ctx_vars, v1_vars, gui_vars, run_vars, note_vars, ui_vars, env_vars, hist_vars,
                   start_time, records, total_records, success_count,
                   local_vars>>

\* after the loop: the completion messages and the optional opening of the
\* output folder, which creates the folder when it is missing and raises
\* nothing
WorkerComplete ==
    /\ pc = "loop"
    /\ i = total_records
    /\ \E t \in now..MaxClock :
          /\ now' = t
          /\ message_queue' = message_queue \o
                << ProgressMsg(100),
                   StatusMsg([msg |-> "Completed",
                              elapsed_time |-> t - start_time,
                              successful |-> success_count,
                              errors |-> error_count]),
                   SuccessMsg([msg |-> "Mail merge completed",
                               successful |-> success_count,
                               errors |-> error_count,
                               skipped |-> skipped_count,
                               elapsed_time |-> t - start_time]) >>
    /\ dirs' = IF open_output_var THEN dirs \cup {output_dir} ELSE dirs
    /\ pc' = "finally"
    /\ UNCHANGED <<gf_vars, cf_vars, ctx_vars, v1_vars, gui_vars, run_vars, note_vars, hist_vars, fs, platform, files_locked,
                   data_source_path, create_word_var, create_pdf_var,
                   backup_existing_var, skip_errors_var, open_output_var,
                   filename_pattern_var, run_button, stop_button,
                   is_processing, start_time, records, total_records, i,
                   count_vars, local_vars, exc>>

\* mutant: the outer except clause reports nothing
WorkerExcept_silent ==
    /\ pc = "except"
    /\ exc' = "none"
    /\ pc' = "finally"
    /\ UNCHANGED <<gf_vars, cf_vars, ctx_vars, v1_vars, gui_vars, run_vars, note_vars, env_vars,
                   hist_vars, ui_vars, start_time, records, total_records, i,
                   count_vars, local_vars>>

\* the outer except clause
WorkerExcept ==
    /\ pc = "except"
    /\ Put2(StatusMsg([msg |-> "Error during mail merge"]),
            ErrorMsg([msg |-> "Mail merge failed", cause |-> exc]))
    /\ exc' = "none"
    /\ pc' = "finally"
    /\ UNCHANGED <<gf_vars, cf_vars, ctx_vars, v1_vars, gui_vars, run_vars, note_vars, env_vars, hist_vars,
                   data_source_path, create_word_var, create_pdf_var,
                   backup_existing_var, skip_errors_var, open_output_var,
                   filename_pattern_var, run_button, stop_button,
                   is_processing, start_time, records, total_records, i,
                   count_vars, local_vars>>

\* the finally clause: the Ready message and the two buttons
WorkerFinally ==
    /\ pc = "finally"
    /\ Put(StatusMsg([msg |-> "Ready"]))
    /\ run_button' = "normal"
    /\ stop_button' = "disabled"
    /\ pc' = "reset"
    /\ UNCHANGED <<gf_vars, cf_vars, ctx_vars, v1_vars, gui_vars, run_vars, note_vars, env_vars,
                   hist_vars, is_processing,
                   data_source_path, create_word_var, create_pdf_var,
                   backup_existing_var, skip_errors_var, open_output_var,
                   filename_pattern_var, start_time, records, total_records,
                   i, count_vars, local_vars, exc>>

\* mutant: the finally clause leaves is_processing as it is
WorkerExit_stuck ==
    /\ pc = "reset"
    /\ workers' = workers - 1
    /\ pc' = "exited"
    /\ UNCHANGED <<gf_vars, cf_vars, ctx_vars, v1_vars, gui_vars, reader,
                   note_vars, env_vars, hist_vars, ui_vars, start_time,
                   records, total_records, i, count_vars, local_vars, exc>>

\* the end of the finally clause, after which the thread is over
WorkerExit ==
    /\ pc = "reset"
    /\ is_processing' = FALSE
    /\ workers' = workers - 1
    /\ pc' = "exited"
    /\ UNCHANGED <<gf_vars, cf_vars, ctx_vars, v1_vars, gui_vars, reader, note_vars, env_vars,
                   hist_vars, run_button, stop_button, message_queue,
                   data_source_path, create_word_var, create_pdf_var,
                   backup_existing_var, skip_errors_var, open_output_var,
                   filename_pattern_var, start_time, records, total_records,
                   i, count_vars, local_vars, exc>>

Next ==
    \/ ToggleSkipErrors
    \/ ToggleBackupExisting
    \/ ToggleCreateWord
    \/ ToggleCreatePdf
    \/ run_mail_merge
    \/ WorkerStart
    \/ WorkerLoad
    \/ RecordBegin
    \/ RecordRender
    \/ RecordFilename
    \/ RecordDirs
    \/ RecordBackup
    \/ RecordWord
    \/ RecordPdf
    \/ RecordCount
    \/ RecordExcept
    \/ WorkerComplete
    \/ WorkerExcept
    \/ WorkerFinally
    \/ WorkerExit

Spec == Init /\ [][Next]_vars

\* the steps of the worker thread
Worker ==
    \/ WorkerStart
    \/ WorkerLoad
    \/ RecordBegin
    \/ RecordRender
    \/ RecordFilename
    \/ RecordDirs
    \/ RecordBackup
    \/ RecordWord
    \/ RecordPdf
    \/ RecordCount
    \/ RecordExcept
    \/ WorkerComplete
    \/ WorkerExcept
    \/ WorkerFinally
    \/ WorkerExit

\* a session with an empty output directory, on a POSIX system where no
\* other program holds a file open
InitPlain ==
    /\ Init
    /\ fs = EmptyFs
    /\ platform = "posix"
    /\ ~files_locked

\* such a session on a CSV source
InitCsv ==
    /\ InitPlain
    /\ data_source_path = <<"d">> \o Str_csv

\* the worker thread, once started, is scheduled until it is over, and every
\* library call it makes returns or raises
SpecFair == InitPlain /\ [][Next]_vars /\ WF_vars(Worker)

\* the session with the interface thread at work during the run: the queue
\* monitor and the Stop button
NextUi ==
    \/ Next
    \/ _monitor_queue
    \/ _stop_processing

SpecUi == InitCsv /\ [][NextUi]_vars

\* the session with a user who changes the options during the run
NextLive ==
    \/ Next
    \/ ToggleDuringRun

SpecLive == InitCsv /\ [][NextLive]_vars

\* the most runs of a session that are followed
MaxRuns == 2

IsReady(m) == m.type = "status" /\ m.text.msg = "Ready"

\* the number of runs whose finally clause has been entered
RunsEnded == Len(SelectSeq(message_queue, IsReady))

\* the Run button, clicked again once the finally clause of a run has
\* enabled it: run_mail_merge starts a new thread, whose locals are its own
run_mail_merge_again ==
    /\ pc \in {"reset", "exited"}
    /\ run_button = "normal"
    /\ RunsEnded < MaxRuns
    /\ IF validate_inputs /\ ~is_processing
       THEN /\ run_button' = "disabled"
            /\ stop_button' = "normal"
            /\ is_processing' = TRUE
            /\ workers' = workers + 1
            /\ run_params' = CurrentParams
            /\ pc' = "start"
            /\ start_time' = 0
            /\ records' = <<>>
            /\ total_records' = 0
            /\ i' = 0
            /\ success_count' = 0
            /\ error_count' = 0
            /\ skipped_count' = 0
            /\ template_doc' = NoDoc
            /\ base_filename' = <<>>
            /\ doc_folder_path' = <<>>
            /\ pdf_folder_path' = <<>>
            /\ doc_path' = NoPath
            /\ exc' = "none"
            /\ raised' = {}
            /\ fs_pre' = EmptyFs
            /\ stop_clicked' = {}
            /\ remove_raised' = FALSE
       ELSE UNCHANGED <<run_button, stop_button, is_processing, workers,
                        worker_vars, hist_vars, note_vars>>
    /\ UNCHANGED <<gf_vars, cf_vars, ctx_vars, v1_vars, gui_vars, reader,
                   env_vars, data_source_path, create_word_var,
                   create_pdf_var, backup_existing_var, skip_errors_var,
                   open_output_var, filename_pattern_var, message_queue>>

\* a session with Word output only, in which no option but skip errors is
\* touched
InitAgain == InitCsv /\ create_word_var /\ ~create_pdf_var

NextAgain ==
    \/ ToggleSkipErrors
    \/ run_mail_merge
    \/ Worker
    \/ run_mail_merge_again
SpecAgain == InitAgain /\ [][NextAgain]_vars /\ WF_vars(Worker)

----------------------------------------------------------------------------
(* v1 application (src/auto_pcp.py) *)

DOB == <<"D", "O", "B">>
Address == <<"A", "d", "d", "r", "e", "s", "s">>
PhoneNO == <<"P", "h", "o", "n", "e", " ", "N", "O">>
DocName == <<"D", "o", "c", " ", "N", "a", "m", "e">>
NPI == <<"N", "P", "I">>
DOCAddress ==
    <<"D", "O", "C", " ", "A", "d", "d", "r", "e", "s", "s">>
DocPhoneNo ==
    <<"D", "o", "c", " ", "P", "h", "o", "n", "e", " ", "n", "o">>

required_fields ==
    {FirstName, LastName, DOB, Address, PhoneNO, DocName, NPI, DOCAddress,
     DocPhoneNo}

\* a cell of the data source after fillna(''): a text, or a number when
\* the reader found the column numeric
Text(s) == [isnum |-> FALSE, text |-> s, num |-> 0]
Number(n) == [isnum |-> TRUE, text |-> IntToStr(n), num |-> n]

\* not record[field]: the empty text and the number zero
Falsy(cell) == IF cell.isnum THEN cell.num = 0 ELSE cell.text = <<>>

\* [field for field in required_fields
\*        if field not in record or not record[field]]
missing_fields(record) ==
    {field \in required_fields :
        field \notin DOMAIN record \/ Falsy(record[field])}

\* the columns a v1 data source may have, every record of a source having
\* all of them
V1Columns ==
    { required_fields, required_fields \ {DocPhoneNo},
      required_fields \cup {DocFolderPath} }

V1Variants == {"full", "empty_dob", "zero_npi", "number_name"}

\* a record with the given columns; the variant says which cell is special
V1Row(columns, variant) ==
    [f \in columns |->
        IF f = DocFolderPath THEN Text(<<"w">>)
        ELSE IF f = DOB /\ variant = "empty_dob" THEN Text(<<>>)
        ELSE IF f = NPI
             THEN (IF variant = "zero_npi" THEN Number(0) ELSE Number(5))
        ELSE IF f = FirstName
             THEN (IF variant = "number_name" THEN Number(7)
                   ELSE Text(<<" ", "A", "n", "n">>))
        ELSE IF f = LastName THEN Text(<<"L", "e", "e">>)
        ELSE Text(<<"x">>)]

RECURSIVE V1VariantSeqs(_)
V1VariantSeqs(n) ==
    IF n = 0 THEN {<<>>}
    ELSE LET shorter == V1VariantSeqs(n - 1)
         IN  shorter \cup {Append(s, v) : s \in shorter, v \in V1Variants}

\* what read_csv / read_excel followed by to_dict('records') may return
V1Sources ==
    { [k \in 1..Len(vs) |-> V1Row(columns, vs[k])] :
        columns \in V1Columns, vs \in V1VariantSeqs(MaxRecords) }

V1DataPaths == { <<"d">> \o Str_csv, <<"d">> \o <<".", "t", "x", "t">> }

\* a callback handed to root.after(0, ...): the call it makes, the
\* expression it evaluates when the Tk loop executes it, and the number of
\* the record it was scheduled for (0 outside the loop)
Callback(call, arg, record) == [call |-> call, arg |-> arg, record |-> record]

V1After(callbacks) == v1_after' = v1_after \o callbacks

\* MailMergeApp.__init__ of v1
InitV1 ==
    /\ gf_Idle
    /\ ctx_Idle
    /\ cf_Idle
    /\ v2_Idle
    /\ v1_data_source_path \in V1DataPaths
    /\ v1_create_word_var \in BOOLEAN
    /\ v1_create_pdf_var \in BOOLEAN
    /\ v1_status_var = StatusText("Ready", 0, 0)
    /\ v1_progress_var = Ratio(0, 1)
    /\ v1_run_button = "normal"
    /\ v1_is_processing = FALSE
    /\ v1_after = <<>>
    /\ v1_dialogs = <<>>
    /\ v1_pc = "ready"
    /\ v1_records = <<>>
    /\ v1_total_records = 0
    /\ v1_i = 0
    /\ v1_success_count = 0
    /\ v1_status_msg = StatusText("unbound", 0, 0)
    /\ v1_base_filename = <<>>
    /\ v1_doc_folder_path = <<>>
    /\ v1_pdf_folder_path = <<>>
    /\ v1_doc_path = NoPath
    /\ v1_exc = "none"
    /\ v1_fs = EmptyFs
    /\ v1_dirs = {}
    /\ v1_validated = {}
    /\ v1_templates = {}
    /\ v1_succeeded = {}

\* validate_inputs of v1, as far as the options go
v1_validate_inputs == v1_create_word_var \/ v1_create_pdf_var

\* run_mail_merge of v1
v1_run_mail_merge ==
    /\ v1_pc = "ready"
    /\ v1_validate_inputs
    /\ ~v1_is_processing
    /\ v1_run_button' = "disabled"
    /\ v1_is_processing' = TRUE
    /\ v1_pc' = "start"
    /\ UNCHANGED <<gf_vars, cf_vars, ctx_vars, v2_vars, v1_data_source_path,
                   v1_create_word_var, v1_create_pdf_var, v1_status_var,
                   v1_progress_var, v1_after, v1_dialogs, v1_records,
                   v1_total_records, v1_i, v1_success_count, v1_status_msg,
                   v1_base_filename, v1_doc_folder_path,
                   v1_pdf_folder_path, v1_doc_path, v1_exc, v1_fs, v1_dirs,
                   v1_validated, v1_templates, v1_succeeded>>

\* the worker's local i as a lambda reads it: the index of the record the
\* loop has reached, which stays at the last index once the loop is over
V1LoopIndex ==
    IF v1_i < v1_total_records THEN v1_i ELSE v1_total_records - 1

\* the Tk loop executes the oldest scheduled callback; a lambda reads the
\* locals of the worker as they are when it is executed
V1Tk ==
    /\ v1_after # <<>>
    /\ LET callback == Head(v1_after)
       IN  /\ v1_status_var' =
                 IF callback.call # "status_var.set" THEN v1_status_var
                 ELSE IF callback.arg = "status_msg" THEN v1_status_msg
                 ELSE IF callback.arg = "completion_msg"
                      THEN StatusText("Completed", v1_success_count,
                                      v1_total_records)
                 ELSE StatusText(callback.arg, 0, 0)
           /\ v1_progress_var' =
                 IF callback.call # "progress_var.set" THEN v1_progress_var
                 ELSE IF callback.arg = "i / total_records"
                      THEN Ratio(V1LoopIndex * 100, v1_total_records)
                 ELSE IF callback.arg = "100" THEN Ratio(100, 1)
                 ELSE Ratio(0, 1)
           /\ v1_dialogs' =
                 IF callback.call \in {"showinfo", "showerror"}
                 THEN Append(v1_dialogs, callback.call)
                 ELSE v1_dialogs
           /\ v1_run_button' =
                 IF callback.call = "run_button.config" THEN callback.arg
                 ELSE v1_run_button
    /\ v1_after' = Tail(v1_after)
    /\ UNCHANGED <<gf_vars, cf_vars, ctx_vars, v2_vars, v1_data_source_path,
                   v1_create_word_var, v1_create_pdf_var, v1_is_processing,
                   v1_pc, v1_records, v1_total_records, v1_i,
                   v1_success_count, v1_status_msg, v1_base_filename,
                   v1_doc_folder_path, v1_pdf_folder_path, v1_doc_path,
                   v1_exc, v1_fs, v1_dirs, v1_validated, v1_templates,
                   v1_succeeded>>

\* continue: on to the next record
V1Continue ==
    /\ v1_i' = v1_i + 1
    /\ v1_pc' = "loop"

\* the two initial callbacks
V1WorkerStart ==
    /\ v1_pc = "start"
    /\ V1After(<<Callback("status_var.set", "Loading data...", 0),
                 Callback("progress_var.set", "0", 0)>>)
    /\ v1_pc' = "load"
    /\ UNCHANGED <<gf_vars, cf_vars, ctx_vars, v2_vars, v1_data_source_path,
                   v1_create_word_var, v1_create_pdf_var, v1_status_var,
                   v1_progress_var, v1_run_button, v1_is_processing,
                   v1_dialogs, v1_records, v1_total_records, v1_i,
                   v1_success_count, v1_status_msg, v1_base_filename,
                   v1_doc_folder_path, v1_pdf_folder_path, v1_doc_path,
                   v1_exc, v1_fs, v1_dirs, v1_validated, v1_templates,
                   v1_succeeded>>

\* loading the data source, up to the creation of the output directory
V1WorkerLoad ==
    /\ v1_pc = "load"
    /\ IF ~SupportedFormat(v1_data_source_path)
       THEN /\ v1_exc' = "Unsupported data source format"
            /\ v1_pc' = "except"
            /\ UNCHANGED <<v1_records, v1_total_records, v1_i,
                           v1_success_count, v1_dirs>>
       ELSE \/ \* the reader raises
               /\ v1_exc' = "read"
               /\ v1_pc' = "except"
               /\ UNCHANGED <<v1_records, v1_total_records, v1_i,
                              v1_success_count, v1_dirs>>
            \/ \E data \in V1Sources :
                  /\ v1_records' = data
                  /\ v1_total_records' = Len(data)
                  /\ IF Len(data) = 0
                     THEN /\ v1_exc' = "No records found in data source"
                          /\ v1_pc' = "except"
                          /\ UNCHANGED <<v1_i, v1_success_count, v1_dirs>>
                     ELSE /\ v1_dirs' = v1_dirs \cup {output_dir}
                          /\ v1_success_count' = 0
                          /\ v1_i' = 0
                          /\ v1_pc' = "loop"
                          /\ UNCHANGED v1_exc
    /\ UNCHANGED <<gf_vars, cf_vars, ctx_vars, v2_vars, v1_data_source_path,
                   v1_create_word_var, v1_create_pdf_var, v1_status_var,
                   v1_progress_var, v1_run_button, v1_is_processing,
                   v1_after, v1_dialogs, v1_status_msg, v1_base_filename,
                   v1_doc_folder_path, v1_pdf_folder_path, v1_doc_path,
                   v1_fs, v1_validated, v1_templates, v1_succeeded>>

\* the head of the loop body: status_msg and the two callbacks
V1RecordBegin ==
    /\ v1_pc = "loop"
    /\ v1_i < v1_total_records
    /\ v1_status_msg' =
          StatusText("Processing record", v1_i + 1, v1_total_records)
    /\ V1After(<<Callback("status_var.set", "status_msg", v1_i + 1),
                 Callback("progress_var.set", "i / total_records", v1_i + 1)>>)
    /\ v1_doc_path' = NoPath
    /\ v1_pc' = "check"
    /\ UNCHANGED <<gf_vars, cf_vars, ctx_vars, v2_vars, v1_data_source_path,
                   v1_create_word_var, v1_create_pdf_var, v1_status_var,
                   v1_progress_var, v1_run_button, v1_is_processing,
                   v1_dialogs, v1_records, v1_total_records, v1_i,
                   v1_success_count, v1_base_filename, v1_doc_folder_path,
                   v1_pdf_folder_path, v1_exc, v1_fs, v1_dirs,
                   v1_validated, v1_templates, v1_succeeded>>

\* the check of the required fields: a record with missing fields is only
\* logged
V1RecordCheck ==
    /\ v1_pc = "check"
    /\ IF missing_fields(v1_records[v1_i + 1]) # {}
       THEN /\ V1Continue
            /\ UNCHANGED v1_validated
       ELSE /\ v1_validated' = v1_validated \cup {v1_i}
            /\ v1_pc' = "render"
            /\ UNCHANGED v1_i
    /\ UNCHANGED <<gf_vars, cf_vars, ctx_vars, v2_vars, v1_data_source_path,
                   v1_create_word_var, v1_create_pdf_var, v1_status_var,
                   v1_progress_var, v1_run_button, v1_is_processing,
                   v1_after, v1_dialogs, v1_records, v1_total_records,
                   v1_success_count, v1_status_msg, v1_base_filename,
                   v1_doc_folder_path, v1_pdf_folder_path, v1_doc_path,
                   v1_exc, v1_fs, v1_dirs, v1_templates, v1_succeeded>>

\* DocxTemplate(...), the context and render(context)
V1RecordRender ==
    /\ v1_pc = "render"
    /\ \/ \* the template cannot be loaded
          /\ V1Continue
          /\ UNCHANGED v1_templates
       \/ \* render raises
          /\ v1_templates' = v1_templates \cup {v1_i}
          /\ V1Continue
       \/ /\ v1_templates' = v1_templates \cup {v1_i}
          /\ v1_pc' = "filename"
          /\ UNCHANGED v1_i
    /\ UNCHANGED <<gf_vars, cf_vars, ctx_vars, v2_vars, v1_data_source_path,
                   v1_create_word_var, v1_create_pdf_var, v1_status_var,
                   v1_progress_var, v1_run_button, v1_is_processing,
                   v1_after, v1_dialogs, v1_records, v1_total_records,
                   v1_success_count, v1_status_msg, v1_base_filename,
                   v1_doc_folder_path, v1_pdf_folder_path, v1_doc_path,
                   v1_exc, v1_fs, v1_dirs, v1_validated, v1_succeeded>>

\* f"{first_name}_{last_name}".replace(' ', '_') of the stripped names, or
\* f"document_{i+1}"
v1_filename(first_name, last_name, index) ==
    LET name == Replace(Strip(first_name, Whitespace) \o <<"_">>
                            \o Strip(last_name, Whitespace),
                        <<" ">>, <<"_">>)
    IN  IF name = <<>> \/ name = <<"_">> THEN DocumentN(index) ELSE name

\* the file name from the patient's name; a number has no strip()
V1RecordFilename ==
    /\ v1_pc = "filename"
    /\ LET record == v1_records[v1_i + 1]
           first == RecordGet(record, FirstName, Text(<<>>))
           last == RecordGet(record, LastName, Text(<<>>))
       IN  IF first.isnum \/ last.isnum
           THEN /\ V1Continue
                /\ UNCHANGED v1_base_filename
           ELSE /\ v1_base_filename' = v1_filename(first.text, last.text, v1_i)
                /\ v1_pc' = "dirs"
                /\ UNCHANGED v1_i
    /\ UNCHANGED <<gf_vars, cf_vars, ctx_vars, v2_vars, v1_data_source_path,
                   v1_create_word_var, v1_create_pdf_var, v1_status_var,
                   v1_progress_var, v1_run_button, v1_is_processing,
                   v1_after, v1_dialogs, v1_records, v1_total_records,
                   v1_success_count, v1_status_msg, v1_doc_folder_path,
                   v1_pdf_folder_path, v1_doc_path, v1_exc, v1_fs, v1_dirs,
                   v1_validated, v1_templates, v1_succeeded>>

V1MakedirsMayRaise(path) == path = <<>> \/ path \notin v1_dirs

\* the two folder paths and os.makedirs inside its own try
V1RecordDirs ==
    /\ v1_pc = "dirs"
    /\ LET record == v1_records[v1_i + 1]
           doc_folder == RecordGet(record, DocFolderPath, Text(output_dir)).text
           pdf_folder == RecordGet(record, PdfFolderPath, Text(output_dir)).text
       IN  /\ v1_doc_folder_path' = doc_folder
           /\ v1_pdf_folder_path' = pdf_folder
           /\ \/ /\ V1MakedirsMayRaise(doc_folder)
                 /\ V1Continue
                 /\ UNCHANGED v1_dirs
              \/ /\ MakedirsMaySucceed(doc_folder)
                 /\ v1_create_pdf_var
                 /\ V1MakedirsMayRaise(pdf_folder)
                 /\ pdf_folder # doc_folder
                 /\ V1Continue
                 /\ v1_dirs' = v1_dirs \cup {doc_folder}
              \/ /\ MakedirsMaySucceed(doc_folder)
                 /\ v1_create_pdf_var => MakedirsMaySucceed(pdf_folder)
                 /\ v1_dirs' = v1_dirs \cup {doc_folder}
                       \cup (IF v1_create_pdf_var THEN {pdf_folder} ELSE {})
                 /\ v1_pc' = "word"
                 /\ UNCHANGED v1_i
    /\ UNCHANGED <<gf_vars, cf_vars, ctx_vars, v2_vars, v1_data_source_path,
                   v1_create_word_var, v1_create_pdf_var, v1_status_var,
                   v1_progress_var, v1_run_button, v1_is_processing,
                   v1_after, v1_dialogs, v1_records, v1_total_records,
                   v1_success_count, v1_status_msg, v1_base_filename,
                   v1_doc_path, v1_exc, v1_fs, v1_validated, v1_templates,
                   v1_succeeded>>

\* the Word file, when selected
V1RecordWord ==
    /\ v1_pc = "word"
    /\ IF v1_create_word_var
       THEN LET path == PathJoin(v1_doc_folder_path,
                                 v1_base_filename \o Str_docx)
            IN  \/ \* save raises
                   /\ V1Continue
                   /\ UNCHANGED <<v1_fs, v1_doc_path>>
                \/ /\ v1_fs' = WriteFile(v1_fs, path, Content(v1_i + 1, "docx"))
                   /\ v1_doc_path' = path
                   /\ v1_pc' = "pdf"
                   /\ UNCHANGED v1_i
       ELSE /\ v1_pc' = "pdf"
            /\ UNCHANGED <<v1_fs, v1_doc_path, v1_i>>
    /\ UNCHANGED <<gf_vars, cf_vars, ctx_vars, v2_vars, v1_data_source_path,
                   v1_create_word_var, v1_create_pdf_var, v1_status_var,
                   v1_progress_var, v1_run_button, v1_is_processing,
                   v1_after, v1_dialogs, v1_records, v1_total_records,
                   v1_success_count, v1_status_msg, v1_base_filename,
                   v1_doc_folder_path, v1_pdf_folder_path, v1_exc, v1_dirs,
                   v1_validated, v1_templates, v1_succeeded>>

\* the PDF: the temporary Word file when none was saved, the conversion,
\* whose error is raised again, and the removal of the temporary file
V1RecordPdf ==
    /\ v1_pc = "pdf"
    /\ IF v1_create_pdf_var
       THEN LET temp_doc_created == v1_doc_path = NoPath
                source == IF temp_doc_created THEN TempPath(v1_i)
                          ELSE v1_doc_path
                saved == IF temp_doc_created
                         THEN WriteFile(v1_fs, source, Content(v1_i + 1, "docx"))
                         ELSE v1_fs
                pdf_path == PathJoin(v1_pdf_folder_path,
                                     v1_base_filename \o Str_pdf)
                converted == WriteFile(saved, pdf_path,
                                       Content(v1_i + 1, "pdf"))
            IN  /\ v1_doc_path' = source
                /\ \/ /\ temp_doc_created
                      /\ V1Continue
                      /\ UNCHANGED v1_fs
                   \/ /\ v1_fs' = saved
                      /\ V1Continue
                   \/ /\ v1_fs' \in
                            {converted} \cup
                            (IF temp_doc_created
                             THEN {RemoveFile(converted, source)} ELSE {})
                      /\ v1_pc' = "count"
                      /\ UNCHANGED v1_i
       ELSE /\ v1_pc' = "count"
            /\ UNCHANGED <<v1_doc_path, v1_fs, v1_i>>
    /\ UNCHANGED <<gf_vars, cf_vars, ctx_vars, v2_vars, v1_data_source_path,
                   v1_create_word_var, v1_create_pdf_var, v1_status_var,
                   v1_progress_var, v1_run_button, v1_is_processing,
                   v1_after, v1_dialogs, v1_records, v1_total_records,
                   v1_success_count, v1_status_msg, v1_base_filename,
                   v1_doc_folder_path, v1_pdf_folder_path, v1_exc, v1_dirs,
                   v1_validated, v1_templates, v1_succeeded>>

\* success_count += 1, and on to the next record
V1RecordCount ==
    /\ v1_pc = "count"
    /\ v1_success_count' = v1_success_count + 1
    /\ v1_succeeded' = v1_succeeded \cup {v1_i}
    /\ V1Continue
    /\ UNCHANGED <<gf_vars, cf_vars, ctx_vars, v2_vars, v1_data_source_path,
                   v1_create_word_var, v1_create_pdf_var, v1_status_var,
                   v1_progress_var, v1_run_button, v1_is_processing,
                   v1_after, v1_dialogs, v1_records, v1_total_records,
                   v1_status_msg, v1_base_filename, v1_doc_folder_path,
                   v1_pdf_folder_path, v1_doc_path, v1_exc, v1_fs, v1_dirs,
                   v1_validated, v1_templates>>

\* after the loop: the three callbacks of the completion
V1WorkerComplete ==
    /\ v1_pc = "loop"
    /\ v1_i = v1_total_records
    /\ V1After(<<Callback("progress_var.set", "100", 0),
                 Callback("status_var.set", "completion_msg", 0),
                 Callback("showinfo", "success_count", 0)>>)
    /\ v1_pc' = "finally"
    /\ UNCHANGED <<gf_vars, cf_vars, ctx_vars, v2_vars, v1_data_source_path,
                   v1_create_word_var, v1_create_pdf_var, v1_status_var,
                   v1_progress_var, v1_run_button, v1_is_processing,
                   v1_dialogs, v1_records, v1_total_records, v1_i,
                   v1_success_count, v1_status_msg, v1_base_filename,
                   v1_doc_folder_path, v1_pdf_folder_path, v1_doc_path,
                   v1_exc, v1_fs, v1_dirs, v1_validated, v1_templates,
                   v1_succeeded>>

\* the outer except clause
V1WorkerExcept ==
    /\ v1_pc = "except"
    /\ V1After(<<Callback("status_var.set", "Error during mail merge", 0),
                 Callback("showerror", "error_msg", 0)>>)
    /\ v1_exc' = "none"
    /\ v1_pc' = "finally"
    /\ UNCHANGED <<gf_vars, cf_vars, ctx_vars, v2_vars, v1_data_source_path,
                   v1_create_word_var, v1_create_pdf_var, v1_status_var,
                   v1_progress_var, v1_run_button, v1_is_processing,
                   v1_dialogs, v1_records, v1_total_records, v1_i,
                   v1_success_count, v1_status_msg, v1_base_filename,
                   v1_doc_folder_path, v1_pdf_folder_path, v1_doc_path,
                   v1_fs, v1_dirs, v1_validated, v1_templates,
                   v1_succeeded>>

\* the finally clause
V1WorkerFinally ==
    /\ v1_pc = "finally"
    /\ V1After(<<Callback("run_button.config", "normal", 0)>>)
    /\ v1_is_processing' = FALSE
    /\ v1_pc' = "exited"
    /\ UNCHANGED <<gf_vars, cf_vars, ctx_vars, v2_vars, v1_data_source_path,
                   v1_create_word_var, v1_create_pdf_var, v1_status_var,
                   v1_progress_var, v1_run_button, v1_dialogs, v1_records,
                   v1_total_records, v1_i, v1_success_count, v1_status_msg,
                   v1_base_filename, v1_doc_folder_path,
                   v1_pdf_folder_path, v1_doc_path, v1_exc, v1_fs, v1_dirs,
                   v1_validated, v1_templates, v1_succeeded>>

NextV1 ==
    \/ v1_run_mail_merge
    \/ V1Tk
    \/ V1WorkerStart
    \/ V1WorkerLoad
    \/ V1RecordBegin
    \/ V1RecordCheck
    \/ V1RecordRender
    \/ V1RecordFilename
    \/ V1RecordDirs
    \/ V1RecordWord
    \/ V1RecordPdf
    \/ V1RecordCount
    \/ V1WorkerComplete
    \/ V1WorkerExcept
    \/ V1WorkerFinally

SpecV1 == InitV1 /\ [][NextV1]_vars

----------------------------------------------------------------------------
(* The binding context of a v2 record *)

\* the most columns of a record
MaxColumns == 3

Uppercase ==
    <<"A", "B", "C", "D", "E", "F", "G", "H", "I", "J", "K",
      "L", "M", "N", "O", "P", "Q", "R", "S", "T", "U", "V", "W", "X", "Y", "Z">>
Lowercase ==
    <<"a", "b", "c", "d", "e", "f", "g", "h", "i", "j", "k",
      "l", "m", "n", "o", "p", "q", "r", "s", "t", "u", "v", "w", "x", "y", "z">>

\* str.lower()
Lower(s) ==
    [k \in 1..Len(s) |->
        IF \E n \in 1..26 : Uppercase[n] = s[k]
        THEN Lowercase[CHOOSE n \in 1..26 : Uppercase[n] = s[k]]
        ELSE s[k]]

\* str(key).strip().replace(' ', '_').lower()
clean_key(key) == Lower(Replace(Strip(key, Whitespace), <<" ">>, <<"_">>))

\* str(value).strip() if value else ''
clean_value(value) ==
    IF Falsy(value) THEN <<>> ELSE Strip(value.text, Whitespace)

\* context[key] = value
SetItem(dict, key, value) ==
    [k \in DOMAIN dict \cup {key} |-> IF k = key THEN value ELSE dict[k]]

\* an item of record.items(): its key and its value
Item(key, value) == [key |-> key, value |-> value]

\* the loop over record.items(), in the order of the columns
RECURSIVE ContextLoop(_, _)
ContextLoop(context, items) ==
    IF items = <<>> THEN context
    ELSE LET item == Head(items)
             cleaned == SetItem(context, clean_key(item.key),
                                clean_value(item.value))
         IN  ContextLoop(SetItem(cleaned, item.key, clean_value(item.value)),
                         Tail(items))

\* record[key] of a record that has the key
ItemValue(items, key) ==
    items[CHOOSE k \in 1..Len(items) : items[k].key = key].value

HasKey(items, key) == \E k \in 1..Len(items) : items[k].key = key

\* the context of a record: the loop, and the computed field 'name'
BuildContextOf(items) ==
    LET context == ContextLoop(EmptyDict, items)
    IN  IF HasKey(items, FirstName) /\ HasKey(items, LastName)
        THEN SetItem(context, <<"n", "a", "m", "e">>,
                     Strip(ItemValue(items, FirstName).text \o <<" ">>
                               \o ItemValue(items, LastName).text,
                           Whitespace))
        ELSE context

\* the column names and the cells a record may have
ContextKeys ==
    { FirstName, LastName, <<"f", "i", "r", "s", "t", "_", "n", "a", "m", "e">>,
      <<"n", "a", "m", "e">>, <<" ", "D", "O", "B">> }

ContextValues ==
    { Text(<<" ", "A", "n", "n">>), Text(<<>>), Number(0), Number(5) }

\* the records of at most n columns, with distinct column names
RECURSIVE ContextRecords(_)
ContextRecords(n) ==
    IF n = 0 THEN {<<>>}
    ELSE LET shorter == ContextRecords(n - 1)
         IN  shorter \cup
             { Append(items, Item(key, value)) :
                 items \in {s \in shorter : Len(s) = n - 1},
                 key \in ContextKeys, value \in ContextValues }

DistinctKeys(items) ==
    \A j, k \in 1..Len(items) : items[j].key = items[k].key => j = k

InitCtx ==
    /\ ctx_pc = "call"
    /\ ctx_record \in {items \in ContextRecords(MaxColumns) : DistinctKeys(items)}
    /\ ctx_context = EmptyDict
    /\ gf_Idle
    /\ cf_Idle
    /\ app_Idle

\* the context of ctx_record is built
BuildContext ==
    /\ ctx_pc = "call"
    /\ ctx_context' = BuildContextOf(ctx_record)
    /\ ctx_pc' = "built"
    /\ UNCHANGED <<ctx_record, gf_vars, cf_vars, app_vars>>

NextCtx == BuildContext
SpecCtx == InitCtx /\ [][NextCtx]_vars

----------------------------------------------------------------------------
(* Claims about _generate_filename and _clean_filename *)

OnlyUnderscores(s) == \A k \in 1..Len(s) : s[k] = "_"

\* what a placeholder stands for: the sanitized value of its field, or the
\* literal Unknown when the record has no such field
PlaceholderText(var, record) ==
    IF var \in DOMAIN record
    THEN _clean_filename(Strip(record[var], Whitespace))
    ELSE UnknownStr

\* the pattern read once from left to right, each placeholder replaced where
\* it stands and every other character kept
RECURSIVE PositionalFrom(_, _, _)
PositionalFrom(s, p, record) ==
    IF p > Len(s) THEN <<>>
    ELSE LET q == IF s[p] = "{" THEN FirstClose(s, p + 1) ELSE 0
         IN  IF q > p + 1
             THEN PlaceholderText(SubSeq(s, p + 1, q - 1), record)
                      \o PositionalFrom(s, q + 1, record)
             ELSE <<s[p]>> \o PositionalFrom(s, p + 1, record)

Positional(record, pattern) == PositionalFrom(pattern, 1, record)

\* the stem expected of a positional substitution: the pattern substituted
\* in place, with the index-based fallback
Expected(record, pattern, index) ==
    LET stem == Positional(record, pattern)
    IN  IF NeedsFallback(stem) THEN DocumentN(index) ELSE stem

\* the text of the pattern outside its placeholders
RECURSIVE LiteralFrom(_, _)
LiteralFrom(s, p) ==
    IF p > Len(s) THEN <<>>
    ELSE LET q == IF s[p] = "{" THEN FirstClose(s, p + 1) ELSE 0
         IN  IF q > p + 1
             THEN LiteralFrom(s, q + 1)
             ELSE <<s[p]>> \o LiteralFrom(s, p + 1)

SeqToSet(s) == {s[k] : k \in 1..Len(s)}

Placeholders(pattern) == SeqToSet(FindAll(pattern))

HasBrace(s) == \E k \in 1..Len(s) : s[k] \in {"{", "}"}

\* C4: _generate_filename never returns the empty string nor a string made
\* only of underscores, and whenever the substituted stem is empty or only
\* underscores the result is exactly document_<index+1>.
C4_NeverEmptyOrUnderscores ==
    gf_pc = "returned" =>
        /\ gf_return # <<>>
        /\ ~OnlyUnderscores(gf_return)
        /\ OnlyUnderscores(Substituted(gf_record, gf_pattern))
               => gf_return = DocumentN(gf_index)

C4_Witness ==
    /\ gf_pc = "returned"
    /\ Len(gf_pattern) >= 2
    /\ OnlyUnderscores(Substituted(gf_record, gf_pattern))
    /\ gf_index = 1
    /\ gf_return = DocumentStr \o <<"_", "2">>

\* C5: when every placeholder of the pattern resolves to an empty value and
\* the remaining literal text is only underscores (as for the pattern
\* {First Name}_{Last Name} with both names empty), the result is
\* document_<index+1>.
C5_EmptyValuesFallBack ==
    ( /\ gf_pc = "returned"
      /\ \A var \in Placeholders(gf_pattern) :
            /\ var \in DOMAIN gf_record
            /\ Strip(gf_record[var], Whitespace) = <<>>
      /\ OnlyUnderscores(LiteralFrom(gf_pattern, 1)) )
    => gf_return = DocumentN(gf_index)

\* C6: a placeholder whose field is missing from the record is replaced, at
\* each of its occurrences, by exactly the literal Unknown (stated for the
\* records whose values hold no brace, so that only the placeholders of the
\* pattern are at stake).
C6_MissingIsUnknown ==
    ( /\ gf_pc = "returned"
      /\ \E var \in Placeholders(gf_pattern) : var \notin DOMAIN gf_record
      /\ \A f \in DOMAIN gf_record : ~HasBrace(gf_record[f]) )
    => gf_return = Expected(gf_record, gf_pattern, gf_index)

\* C8: the result is the pattern with each placeholder replaced by the
\* sanitized value of its own field and all literal text unchanged; a value
\* once substituted is not rewritten by a later substitution (stated for the
\* patterns whose placeholder names hold no brace, whatever the values hold).
C8_PositionalSubstitution ==
    ( /\ gf_pc = "returned"
      /\ \A var \in Placeholders(gf_pattern) : ~HasBrace(var) )
    => gf_return = Expected(gf_record, gf_pattern, gf_index)

\* C7: _clean_filename is idempotent, and its result holds none of the
\* invalid characters and neither starts nor ends with a space or a dot.
C7_CleanIdempotent ==
    /\ cf_pc = "recleaned" => cf_recleaned = cf_cleaned
    /\ cf_pc \in {"cleaned", "recleaned"} =>
          /\ \A k \in 1..Len(cf_cleaned) : cf_cleaned[k] \notin InvalidChars
          /\ cf_cleaned # <<>>
          /\ Head(cf_cleaned) \notin {" ", "."}
          /\ cf_cleaned[Len(cf_cleaned)] \notin {" ", "."}

C7_Witness ==
    /\ cf_pc = "recleaned"
    /\ \E k \in 1..Len(cf_filename) : cf_filename[k] \in InvalidChars
    /\ cf_filename[Len(cf_filename)] = "."
    /\ cf_recleaned = cf_cleaned
    /\ cf_cleaned # DocumentStr

----------------------------------------------------------------------------
(* Claims about the v2 run *)

HasMessage(type) ==
    \E k \in 1..Len(message_queue) : message_queue[k].type = type

\* the worker has left the try statement
RunEnded == pc \in {"finally", "reset", "exited"}

\* the stem and the two target paths of the record with index m
StemOf(m) == _generate_filename(records[m + 1], filename_pattern_var, m)
DocTarget(m) ==
    PathJoin(RecordGet(records[m + 1], DocFolderPath, output_dir),
             StemOf(m) \o Str_docx)
PdfTarget(m) ==
    PathJoin(RecordGet(records[m + 1], PdfFolderPath, output_dir),
             StemOf(m) \o Str_pdf)

C2_AbortAtFirstFailure ==
    (~skip_errors_var /\ raised # {}) =>
        LET j == CHOOSE m \in raised : \A n \in raised : m <= n
        IN  /\ raised = {j}
            /\ i = j
            /\ pc \in {"rec_except", "except", "finally", "reset", "exited"}
            /\ success_count = j
            /\ pc # "rec_except" => error_count = 1
            /\ template_doc.rec <= j + 1
            /\ \A p \in DOMAIN fs : fs[p].rec <= j + 1
            /\ \A k \in 1..Len(message_queue) :
                  /\ message_queue[k].type # "success"
                  /\ ( /\ message_queue[k].type = "status"
                       /\ message_queue[k].text.msg = "Processing record" )
                     => message_queue[k].text.index <= j + 1
            /\ RunEnded => HasMessage("error")

C2_Witness ==
    /\ pc = "exited"
    /\ ~skip_errors_var
    /\ total_records = 2
    /\ raised = {0}
    /\ success_count = 0
    /\ error_count = 1
    /\ HasMessage("error")

\* C3: at the end of every run that loaded its records, also one aborted by
\* a record error, a summary with the succeeded, errored and skipped counts
\* and the elapsed time has been reported.
C3_SummaryAlwaysReported ==
    (pc = "exited" /\ total_records >= 1) =>
        \E k \in 1..Len(message_queue) :
            /\ message_queue[k].type # "progress"
            /\ {"successful", "errors", "skipped", "elapsed_time"}
                   \subseteq DOMAIN message_queue[k].text

\* the backups of base_filename with extension ext in folder that the
\* current record has added
NewBackups(folder, ext) ==
    { q \in DOMAIN fs \ DOMAIN fs_pre :
        \E t \in 0..MaxClock :
            q = PathJoin(folder, BackupName(base_filename, Strftime(t), ext)) }

\* the target at path p existed: one new backup holds what it held, and the
\* path holds what the current record rendered
BackedUpAndRewritten(p, folder, ext, fmt) ==
    p \in DOMAIN fs_pre =>
        /\ Cardinality(NewBackups(folder, ext)) = 1
        /\ \A q \in NewBackups(folder, ext) : fs[q] = fs_pre[p]
        /\ p \in DOMAIN fs
        /\ fs[p] = Content(i + 1, fmt)

\* C9: with backup enabled (and no file held open by another program), a
\* record written over an existing target file leaves exactly one new backup
\* file <stem>_backup_<timestamp>.<ext> holding the old content, and the
\* target path holds the record's new content.
C9_BackupThenRewrite ==
    (pc = "count" /\ backup_existing_var /\ ~files_locked) =>
        /\ create_word_var =>
              BackedUpAndRewritten(
                  PathJoin(doc_folder_path, base_filename \o Str_docx),
                  doc_folder_path, Str_docx, "docx")
        /\ create_pdf_var =>
              BackedUpAndRewritten(
                  PathJoin(pdf_folder_path, base_filename \o Str_pdf),
                  pdf_folder_path, Str_pdf, "pdf")

\* C10: no two records of a run write to the same path, and at the end of
\* the run every record counted as succeeded has its own Word and/or PDF
\* file on disk.
C10_CollisionSafe ==
    (pc = "exited" /\ HasMessage("success")) =>
        LET succeeded == (0..(total_records - 1)) \ raised
        IN  /\ \A m, n \in succeeded :
                  m # n => /\ DocTarget(m) # DocTarget(n)
                           /\ PdfTarget(m) # PdfTarget(n)
            /\ \A m \in succeeded :
                  /\ create_word_var =>
                        /\ DocTarget(m) \in DOMAIN fs
                        /\ fs[DocTarget(m)] = Content(m + 1, "docx")
                  /\ create_pdf_var =>
                        /\ PdfTarget(m) \in DOMAIN fs
                        /\ fs[PdfTarget(m)] = Content(m + 1, "pdf")

----------------------------------------------------------------------------
(* Claims about the events, the states and the threads of a v2 run *)

IsProgress(m) == m.type = "progress"

IsRecordStatus(m) == m.type = "status" /\ m.text.msg = "Processing record"

\* the progress values enqueued so far, in order
ProgressValues ==
    LET events == SelectSeq(message_queue, IsProgress)
    IN  [k \in 1..Len(events) |-> events[k].value]

\* the number of records begun so far
RecordsBegun == Len(SelectSeq(message_queue, IsRecordStatus))

ProgressInRange ==
    /\ \A k \in 1..Len(ProgressValues) : ProgressValues[k] \in 0..100
    /\ \A j, k \in 1..Len(ProgressValues) :
          j < k => ProgressValues[j] <= ProgressValues[k]

\* C11 (as amended): the worker enqueues one progress event when it starts,
\* one for each record it begins (before the record is processed) and one on
\* completion, and no other; the progress values enqueued are non-decreasing
\* and within 0 to 100.
C11_ProgressPerRecordBegun ==
    /\ ProgressInRange
    /\ Len(ProgressValues) <= RecordsBegun + 2
    /\ pc \in {"load", "loop", "render", "filename", "dirs", "backup", "word",
               "pdf", "count", "rec_except", "except"}
          => Len(ProgressValues) = RecordsBegun + 1

C11_Witness ==
    /\ pc = "exited"
    /\ total_records = 2
    /\ raised = {}
    /\ ProgressValues = <<0, 0, 50, 100>>

\* C11 (as stated): at most one progress event per completed record, the
\* values non-decreasing and within 0 to 100.
C11_ProgressPerCompletedRecord ==
    /\ ProgressInRange
    /\ Len(ProgressValues) <= success_count + error_count

\* the states of a run
Idle == pc = "ready"
Running == pc \notin {"ready", "exited"}
Completed == pc = "exited" /\ HasMessage("success")
Failed == pc = "exited" /\ HasMessage("error")

\* the records processed so far, with or without success
Processed == success_count + error_count

\* C12: a run once started eventually ends, Completed or Failed and never
\* both, with a terminal status reported last; while it runs the number of
\* processed records never decreases and never exceeds the total, which does
\* not change once the records are loaded.
C12_RunStateMachine ==
    /\ [](pc = "exited" =>
            /\ Completed # Failed
            /\ message_queue[Len(message_queue)]
                   = StatusMsg([msg |-> "Ready"]))
    /\ [](Processed <= total_records)
    /\ [][ /\ Processed' >= Processed
           /\ pc \in RecordSteps \cup {"loop"} =>
                 total_records' = total_records
           /\ pc' = "exited" => pc \in {"reset", "exited"}
           /\ pc = "ready" => pc' \in {"ready", "start"} ]_vars
    /\ (pc = "start" ~> pc = "exited")

C12_Witness ==
    /\ Failed
    /\ total_records = 2
    /\ success_count = 1
    /\ error_count = 1

\* C13: once Stop has been clicked during the processing of a record, the
\* worker finishes that record and begins no later one.
C13_StopAtRecordBoundary ==
    \A s \in stop_clicked :
        \/ i <= s
        \/ i = s + 1 /\ pc \notin RecordSteps

\* the widgets and variables of the interface
widgets == <<run_button, stop_button, status_var, progress_var>>

\* a step of the worker thread
WorkerStep == pc \notin {"ready", "exited"} /\ pc' # pc

\* C14: no step of the worker thread changes a widget or a variable of the
\* interface; what the worker has to tell reaches them through the queue,
\* by _monitor_queue.
C14_WorkerLeavesWidgetsAlone ==
    [][WorkerStep => UNCHANGED widgets]_vars

\* C15: at most one worker thread is alive at any moment, run_mail_merge
\* starts none while is_processing is true, and the worker moves on to
\* another record only from the last step of the record at hand (its count
\* or its except clause).
C15_SingleWorker ==
    [][ /\ workers' <= 1
        /\ workers' > workers => ~is_processing /\ is_processing'
        /\ (is_processing /\ pc' = "start") => pc = "start"
        /\ (i' # i /\ pc # "load") =>
              /\ pc \in {"count", "rec_except"}
              /\ i' = i + 1 ]_vars

C15_Witness ==
    /\ workers = 1
    /\ is_processing
    /\ pc = "render"
    /\ i = 1

\* the current record has written its own file of the given format
Written(folder, ext, fmt) ==
    LET path == PathJoin(folder, base_filename \o ext)
    IN  path \in DOMAIN fs /\ fs[path] = Content(i + 1, fmt)

\* C16: every record is processed with the options as they stood when the
\* run started, whatever the user changes during the run: a record that
\* succeeds has written a Word (PDF) file exactly when Word (PDF) output was
\* selected at the start, and a failed record aborts the run exactly when
\* skip errors was off at the start.
C16_ParamsReadAtStart ==
    /\ pc = "count" =>
          /\ Written(doc_folder_path, Str_docx, "docx") <=> run_params.create_word
          /\ Written(pdf_folder_path, Str_pdf, "pdf") <=> run_params.create_pdf
    /\ (pc = "except" /\ raised # {}) => ~run_params.skip_errors
    /\ (pc = "loop" /\ raised # {}) => run_params.skip_errors

\* the data source has been dispatched on its extension
Loaded == pc \notin {"ready", "start", "load"}

\* nothing has been created since construction
NothingCreated ==
    /\ fs \in {EmptyFs, OldFiles}
    /\ dirs = (IF fs = EmptyFs THEN {} ELSE {output_dir})

\* C17: a data source path that ends in .csv is read with the CSV reader and
\* one that ends in .xlsx or .xls with the spreadsheet reader; a path that
\* ends in none of them fails the run before any record is processed: no
\* record is loaded or begun, no directory and no file is created, an error
\* and no success is reported, and the run ends as failed.
C17_UnsupportedFormatFails ==
    Loaded =>
      /\ EndsWith(data_source_path, Str_csv) => reader = "read_csv"
      /\ (EndsWith(data_source_path, Str_xlsx)
            \/ EndsWith(data_source_path, Str_xls)) => reader = "read_excel"
      /\ ( /\ ~EndsWith(data_source_path, Str_csv)
           /\ ~EndsWith(data_source_path, Str_xlsx)
           /\ ~EndsWith(data_source_path, Str_xls) ) =>
            /\ reader = "none"
            /\ records = <<>>
            /\ RecordsBegun = 0
            /\ Processed = 0
            /\ NothingCreated
            /\ ~HasMessage("success")
            /\ pc = "except" \/ (RunEnded /\ HasMessage("error"))
            /\ pc = "exited" => Failed

\* a run on a .txt data source has ended
C17_Witness ==
    /\ pc = "exited"
    /\ data_source_path = <<"d">> \o <<".", "t", "x", "t">>
    /\ Failed
    /\ dirs = {}

\* the record supplies a folder in the given column
Supplied(record, column) == column \in DOMAIN record /\ record[column] # <<>>

\* the folder the column stands for
TargetDir(record, column) ==
    IF Supplied(record, column) THEN record[column] ELSE output_dir

\* the two folder paths of the current record have been determined
FoldersChosen ==
    \/ pc \in {"backup", "word", "pdf", "count"}
    \/ pc = "rec_except" /\ exc = "makedirs"

\* C19: the Word file of a record goes to the record's DocFolderPath and
\* its PDF to the record's PdfFolderPath when the record supplies one, and
\* to the output directory otherwise, an empty cell in an existing column
\* included.
C19_TargetDirectory ==
    FoldersChosen =>
      /\ doc_folder_path = TargetDir(records[i + 1], DocFolderPath)
      /\ pdf_folder_path = TargetDir(records[i + 1], PdfFolderPath)

\* the transient Word files present in the file system
TransientFiles == {m \in 0..MaxRecords : TempPath(m) \in DOMAIN fs}

\* between two records and after the run
BetweenRecords == pc = "loop" \/ RunEnded

\* C20: with Word output on no transient file is ever created; with PDF on
\* and Word off the transient file of a record is gone before the next
\* record begins, so that none remains at the end of any run (a deletion
\* that the system refuses is left aside).
C20_NoTransientFileRemains ==
    /\ create_word_var => TransientFiles = {}
    /\ (BetweenRecords /\ ~remove_raised) => TransientFiles = {}

----------------------------------------------------------------------------
(* Claims about the v1 run *)

\* every required field is a column of the record and its cell is not empty
HasRequiredFields(record) ==
    \A field \in required_fields :
        field \in DOMAIN record /\ record[field] # Text(<<>>)

\* the check of the required fields has been made for the record of index m
V1Checked(m) ==
    \/ m < v1_i
    \/ m = v1_i /\ v1_pc \in {"render", "filename", "dirs", "word", "pdf", "count"}

\* the files written for the record of index m
V1FilesOf(m) == {p \in DOMAIN v1_fs : v1_fs[p].rec = m + 1}

\* C18: in v1 a record goes on to be processed exactly when each of the
\* nine required fields is present and non-empty in it; for a record that
\* fails the check no template is loaded, no file is written and nothing
\* is counted, and the run goes on to the next record, so that a run that
\* loaded its records ends having visited all of them.
C18_RequiredFieldsDecide ==
    /\ \A m \in 0..(Len(v1_records) - 1) :
          V1Checked(m) =>
            /\ m \in v1_validated <=> HasRequiredFields(v1_records[m + 1])
            /\ ~HasRequiredFields(v1_records[m + 1]) =>
                  /\ m \notin v1_templates
                  /\ V1FilesOf(m) = {}
                  /\ m \notin v1_succeeded
    /\ (v1_pc = "exited" /\ v1_records # <<>>) => v1_i = v1_total_records

----------------------------------------------------------------------------
(* Claims about the steps of one v2 record *)

\* the paths whose content a step has written or changed
Touched == {p \in DOMAIN fs' : p \notin DOMAIN fs \/ fs'[p] # fs[p]}

\* the files that hold what the current record rendered
FilesOfCurrent == {p \in DOMAIN fs : fs[p].rec = i + 1}

\* C21: within one v2 record the steps come in a fixed order: the target
\* directories exist before any backup or write, a backup rename comes
\* before the first new write, the Word file is saved before the
\* conversion, and success_count is incremented only when every enabled
\* output has been written.
C21_StepOrder ==
    /\ [](pc \in {"backup", "word", "pdf", "count"} =>
            /\ doc_folder_path \in dirs
            /\ create_pdf_var => pdf_folder_path \in dirs)
    /\ [](pc \in {"render", "filename", "dirs", "backup"} => FilesOfCurrent = {})
    /\ []((pc = "pdf" /\ create_word_var) =>
            Written(doc_folder_path, Str_docx, "docx"))
    /\ [][ /\ (pc \in RecordSteps /\ dirs' # dirs) => pc = "dirs"
           /\ (pc \in RecordSteps /\ fs' # fs) => pc \in {"backup", "word", "pdf"}
           /\ (pc = "backup" /\ fs' # fs) =>
                 \A p \in Touched : fs'[p].rec # i + 1
           /\ (pc \in {"word", "pdf"} /\ fs' # fs) =>
                 \A p \in Touched : fs'[p].rec = i + 1
           /\ success_count' # success_count =>
                 /\ success_count' = success_count + 1
                 /\ create_word_var => Written(doc_folder_path, Str_docx, "docx")
                 /\ create_pdf_var => Written(pdf_folder_path, Str_pdf, "pdf")
         ]_vars

\* a record written over existing files, with a backup of the old ones
C21_Witness ==
    /\ pc = "count"
    /\ create_word_var /\ create_pdf_var /\ backup_existing_var
    /\ Written(doc_folder_path, Str_docx, "docx")
    /\ Written(pdf_folder_path, Str_pdf, "pdf")
    /\ NewBackups(doc_folder_path, Str_docx) # {}

\* the load or the render of the template has failed for the current record
RenderFailed == pc = "rec_except" /\ exc = "render"

V1FailedRenderPersistsNothing ==
    [][ v1_pc = "render" =>
          /\ UNCHANGED <<v1_fs, v1_dirs, v1_success_count>>
          /\ v1_pc' = "loop" => (v1_i' = v1_i + 1 /\ V1FilesOf(v1_i) = {})
      ]_vars

\* an existing target of the current record that the backup step is about
\* to leave where it is, its rename having raised
BackupFails ==
    /\ pc = "backup"
    /\ backup_existing_var
    /\ files_locked
    /\ \/ PathJoin(doc_folder_path, base_filename \o Str_docx) \in DOMAIN fs
       \/ PathJoin(pdf_folder_path, base_filename \o Str_pdf) \in DOMAIN fs

\* C23: in v2 a conversion that fails makes the record a failed record:
\* error_count grows by one, success_count does not, and skip errors
\* decides between the next record and the end of the run; a backup that
\* fails and a transient file that cannot be deleted do not: the record
\* goes on, is counted in success_count, and the run continues.
C23_FatalAndNonFatalFailures ==
    /\ []((pc = "rec_except" /\ exc = "convert") => i \in raised)
    /\ [](pc = "count" => i \notin raised)
    /\ [][ /\ (pc = "rec_except" /\ exc = "convert") =>
                 /\ error_count' = error_count + 1
                 /\ success_count' = success_count
                 /\ IF skip_errors_var
                    THEN pc' = "loop" /\ i' = i + 1
                    ELSE pc' = "except" /\ i' = i
           /\ BackupFails =>
                 /\ fs' = fs
                 /\ pc' = "word"
                 /\ UNCHANGED <<raised, error_count, i>>
           /\ (pc = "pdf" /\ TempPath(i) \in DOMAIN fs' /\ fs'[TempPath(i)].rec = i + 1
                 /\ PathJoin(pdf_folder_path, base_filename \o Str_pdf) \in DOMAIN fs'
                 /\ fs'[PathJoin(pdf_folder_path, base_filename \o Str_pdf)].rec = i + 1) =>
                 /\ pc' = "count"
                 /\ UNCHANGED <<raised, error_count, i>>
           /\ pc = "count" =>
                 /\ success_count' = success_count + 1
                 /\ error_count' = error_count
                 /\ pc' = "loop" /\ i' = i + 1
         ]_vars

\* a run in which the conversion of the first record failed, and the
\* existing PDF of the second could not be backed up nor its transient file
\* deleted
C23_Witness ==
    /\ pc = "exited"
    /\ raised = {0}
    /\ error_count = 1
    /\ success_count = 1
    /\ remove_raised
    /\ TempPath(0) \in DOMAIN fs
    /\ TempPath(1) \in DOMAIN fs
    /\ backup_existing_var /\ files_locked
    /\ PathJoin(output_dir, base_filename \o Str_pdf) \in DOMAIN fs_pre

----------------------------------------------------------------------------
(* Claims about the binding context *)

\* C24: the context of a v2 record maps, for every field of the record,
\* both the verbatim name and the normalized name of the field to the
\* trimmed string form of the value of that field, whatever the columns
\* are.
C24_ContextBindsOwnValue ==
    ctx_pc = "built" =>
        \A k \in 1..Len(ctx_record) :
            LET key == ctx_record[k].key
                own == Strip(ctx_record[k].value.text, Whitespace)
            IN  /\ key \in DOMAIN ctx_context
                /\ ctx_context[key] = own
                /\ clean_key(key) \in DOMAIN ctx_context
                /\ ctx_context[clean_key(key)] = own

----------------------------------------------------------------------------
(* Claims about the files and the counters of a v2 run *)

\* the files at target and backup paths: all but the transient ones
Kept(files) == DOMAIN files \ {TempPath(m) : m \in 0..MaxRecords}

\* C25: with backup enabled no step of a v2 run loses the content of a
\* file: what a file held before the step is held by a file after it, at
\* the same path or in a backup; and a backup rename never replaces a
\* backup that exists.
C25_NoContentLost ==
    [][ backup_existing_var =>
          /\ \A p \in Kept(fs) : \E q \in Kept(fs') : fs'[q] = fs[p]
          /\ pc = "backup" => \A p \in Touched : p \notin DOMAIN fs
      ]_vars

\* C26: at every record boundary of a v2 run success_count + error_count
\* is the number of records attempted so far and is at most total_records;
\* skipped_count is never more than error_count, and equals it in every
\* run that completes.
C26_CountersAddUp ==
    /\ pc = "loop" =>
          /\ success_count + error_count = i
          /\ i <= total_records
    /\ success_count + error_count <= total_records
    /\ skipped_count <= error_count
    /\ HasMessage("success") =>
          /\ skipped_count = error_count
          /\ success_count + error_count = total_records

\* a completed run with one record written and one skipped
C26_Witness ==
    /\ Completed
    /\ success_count = 1
    /\ error_count = 1
    /\ skipped_count = 1

\* C27: whatever the user does to the two format options during a v2 run,
\* at least one format is selected while a record is processed, and a
\* record that is about to be counted in success_count has written its
\* Word file or its PDF.
C27_SucceededHasOutput ==
    /\ pc \in RecordSteps => (create_word_var \/ create_pdf_var)
    /\ pc = "count" =>
          \/ Written(doc_folder_path, Str_docx, "docx")
          \/ Written(pdf_folder_path, Str_pdf, "pdf")

NoRecordsFound == "No records found in data source"

\* the run has found its data source without records
NoRecords ==
    \/ pc = "except" /\ exc = NoRecordsFound
    \/ \E k \in 1..Len(message_queue) :
          /\ message_queue[k].type = "error"
          /\ message_queue[k].text.cause = NoRecordsFound

\* C28: a v2 run whose data source loads and holds no record fails: the
\* load step goes to the outer except clause without creating the output
\* directory, no record is begun, an error and no success is reported, no
\* progress value of 100 is emitted, and the run ends as failed.
C28_EmptySourceFails ==
    /\ [](NoRecords =>
            /\ NothingCreated
            /\ RecordsBegun = 0
            /\ ~HasMessage("success")
            /\ \A k \in 1..Len(ProgressValues) : ProgressValues[k] # 100
            /\ RunEnded => HasMessage("error")
            /\ pc = "exited" => Failed)
    /\ [][ (pc = "load" /\ pc' # "load" /\ exc' \notin {"read", "Unsupported data source format"}
              /\ records' = <<>>) =>
              /\ pc' = "except"
              /\ exc' = NoRecordsFound
              /\ dirs' = dirs
         ]_vars

\* a run on an empty data source has ended
C28_Witness ==
    /\ pc = "exited"
    /\ NoRecords
    /\ records = <<>>
    /\ reader = "read_csv"
    /\ dirs = {}

----------------------------------------------------------------------------
(* Claims about the end of a run *)

\* C29: whatever the outcome of a v2 run, the worker reaches the end of its
\* finally clause, after which is_processing is false and the Run button
\* enabled, so that a Run click then starts a new worker; is_processing is
\* true exactly from the accepted Run click to the end of the finally
\* clause.
C29_RunCanBeRepeated ==
    /\ pc = "start" ~> (pc = "exited" /\ ~is_processing /\ run_button = "normal")
    /\ [](is_processing <=> Running)
    /\ [](pc = "exited" => (~is_processing /\ run_button = "normal" /\ workers = 0))
    /\ []((pc = "exited" /\ RunsEnded < MaxRuns) => ENABLED <<run_mail_merge_again>>_vars)
    /\ [][ (pc = "exited" /\ pc' # "exited") =>
              (pc' = "start" /\ is_processing' /\ workers' = 1
                 /\ run_button' = "disabled") ]_vars

\* the worker of a second run is processing a record
C29_Witness ==
    /\ RunsEnded = 1
    /\ pc = "render"
    /\ is_processing
    /\ workers = 1

\* the same for v1: is_processing is true from the accepted Run click to
\* the finally clause, and once the Tk loop has executed the callbacks of
\* an ended run the Run button is enabled
V1RunEndsIdle ==
    /\ v1_is_processing <=> v1_pc \notin {"ready", "exited"}
    /\ (v1_pc = "exited" /\ v1_after = <<>>) => v1_run_button = "normal"

----------------------------------------------------------------------------
(* Claims about the v1 interface *)

\* the Tk loop executes the callback at the head of v1_after
V1Executes(arg) ==
    /\ v1_after # <<>>
    /\ v1_after' = Tail(v1_after)
    /\ Head(v1_after).arg = arg

\* C30: in v1 the status and the progress that the worker schedules for a
\* record show, when the Tk loop executes them, the number of that record
\* and its share of the total, however far the worker has come by then.
C30_CallbackShowsItsRecord ==
    [][ /\ V1Executes("status_msg") =>
              v1_status_var' = StatusText("Processing record",
                                          Head(v1_after).record,
                                          v1_total_records)
        /\ V1Executes("i / total_records") =>
              v1_progress_var' = Ratio((Head(v1_after).record - 1) * 100,
                                       v1_total_records)
      ]_vars

====
